---------------------------- MODULE Spec2Model ----------------------------
(***************************************************************************)
(* Model of the Win Log Interpreter core:                                  *)
(*   - src/api/ai_explainer.py : parse_gemini_response, get_explanation    *)
(*   - src/utils/parser.py     : parse_log and its segmentation strategies *)
(*   - src/utils/win_event_reader.py : read_windows_event_log              *)
(*   - src/api/api_client_gemini.py  : GeminiClient.chat                   *)
(*   - src/ui/main_window.py         : MainWindow's working set            *)
(*                                                                         *)
(* Text is a sequence of one-element strings ("characters").  For log text *)
(* a few elements stand for a fixed multi-character literal (a timestamp,  *)
(* an XML tag); their widths are given by Width.                           *)
(***************************************************************************)
EXTENDS Integers, Sequences, FiniteSets, TLC

VARIABLES
    \* ---- get_explanation (ai_explainer.py:149-196)
    retries,          \* argument retries
    backoff_seconds,  \* argument backoff_seconds, in whole units
    attempt,          \* local attempt
    last_exc,         \* local last_exc
    calls,            \* the calls made so far: gemini_client.chat and time.sleep
    attempts,         \* what each loop iteration ended with
    outcome,          \* how get_explanation ended: running, returned, raised
    \* ---- parse_gemini_response (ai_explainer.py:65-146)
    resp,             \* argument resp
    parsed,           \* its result
    \* ---- parse_log (parser.py:131-185)
    raw,              \* argument raw
    events,           \* its result
    \* ---- read_windows_event_log (win_event_reader.py:204-234)
    platform_system,  \* what platform.system() returns
    win32_available,  \* module global _win32_available
    log_type,         \* argument log_type
    max_records,      \* argument max_records
    rpc,              \* where the read stands
    hand,             \* the handle of _read_with_pywin32: none, open, closed
    total,            \* local total of _read_with_pywin32
    native_events,    \* local events of _read_with_pywin32
    syscalls,         \* the calls made outside the module, in order
    result,           \* how read_windows_event_log ended: running, returned, raised
    \* ---- GeminiClient.chat (api_client_gemini.py:69-90)
    http,             \* what requests.post does: raises, or the response it returns
    cpc,              \* where chat stands
    chat_out,         \* how chat ended: running, returned, raised
    \* ---- a function called on its own
    fn,               \* its name
    arg,              \* its arguments
    ret,              \* its result
    \* ---- MainWindow (main_window.py)
    ui_platform,      \* platform.system()
    ui_pc,            \* constructing (before the auto-load) or ready for the user
    loaded_events,    \* _loaded_events
    filtered_events,  \* _filtered_events, the displayed list
    last_loaded_winlog_type,  \* _last_loaded_winlog_type
    loaded_from_file, \* _loaded_from_file
    max_events,       \* _max_events, the Load count
    log_type_var,     \* the channel selected in the dropdown
    last_call         \* what the last handler did: its name, how it ended, its fetch

vars == <<retries, backoff_seconds, attempt, last_exc, calls, attempts, outcome,
          resp, parsed, raw, events,
          platform_system, win32_available, log_type, max_records, rpc, hand,
          total, native_events, syscalls, result,
          http, cpc, chat_out, fn, arg, ret,
          ui_platform, ui_pc, loaded_events, filtered_events, last_loaded_winlog_type,
          loaded_from_file, max_events, log_type_var, last_call>>

explainVars == <<retries, backoff_seconds, attempt, last_exc, calls, attempts, outcome>>
parseVars   == <<resp, parsed>>
logVars     == <<raw, events>>
readVars    == <<platform_system, win32_available, log_type, max_records, rpc, hand,
                 total, native_events, syscalls, result>>

-----------------------------------------------------------------------------
(* Bounds of the model *)

MaxRetries == 3
MaxBackoff == 2
MaxTextLen == 3

-----------------------------------------------------------------------------
(* Python str primitives *)

\* str.isspace for one character: the whitespace characters of the model.
LineBreaks == {"\n", "\r"}
Whitespace == {" ", "\t"} \cup LineBreaks

IsSpace(c) == c \in Whitespace

RECURSIVE LStrip(_)
LStrip(s) ==
    IF s = <<>> THEN <<>>
    ELSE IF IsSpace(Head(s)) THEN LStrip(Tail(s))
    ELSE s

RECURSIVE RStrip(_)
RStrip(s) ==
    IF s = <<>> THEN <<>>
    ELSE IF IsSpace(s[Len(s)]) THEN RStrip(SubSeq(s, 1, Len(s) - 1))
    ELSE s

Strip(s) == RStrip(LStrip(s))

\* A line is blank when "not line.strip()".
IsBlank(s) == Strip(s) = <<>>

\* str.splitlines(): break at \n, \r and \r\n, no empty last line.
RECURSIVE SplitFrom(_, _, _)
SplitFrom(s, i, cur) ==
    IF i > Len(s) THEN (IF cur = <<>> THEN <<>> ELSE <<cur>>)
    ELSE IF s[i] = "\r" /\ i < Len(s) /\ s[i + 1] = "\n"
         THEN <<cur>> \o SplitFrom(s, i + 2, <<>>)
    ELSE IF s[i] \in LineBreaks
         THEN <<cur>> \o SplitFrom(s, i + 1, <<>>)
    ELSE SplitFrom(s, i + 1, Append(cur, s[i]))

Splitlines(s) == SplitFrom(s, 1, <<>>)

\* sep.join(parts)
RECURSIVE Join(_, _)
Join(sep, parts) ==
    IF parts = <<>> THEN <<>>
    ELSE IF Len(parts) = 1 THEN parts[1]
    ELSE parts[1] \o sep \o Join(sep, Tail(parts))

NotBlank(s) == ~IsBlank(s)

-----------------------------------------------------------------------------
(* Python values: what gemini_client.chat may return.  A value is a record  *)
(* [t, v]: t its type, v its content.  A dict is the sequence of its        *)
(* <<key, value>> items in insertion order, a key being text.               *)

PyNone      == [t |-> "none",  v |-> <<>>]
PyStr(s)    == [t |-> "str",   v |-> s]
PyBytes(b)  == [t |-> "bytes", v |-> b]
PyInt(n)    == [t |-> "int",   v |-> n]
PyList(xs)  == [t |-> "list",  v |-> xs]
PyDict(kvs) == [t |-> "dict",  v |-> kvs]
\* An object of some other class; v is what its __str__ returns.
PyObj(s)    == [t |-> "obj",   v |-> s]

IsStr(x)  == x.t = "str"
IsDict(x) == x.t = "dict"
IsSeqLike(x) == x.t = "list"        \* isinstance(x, (list, tuple))

\* bool(x)
Truthy(x) ==
    CASE x.t = "none" -> FALSE
      [] x.t = "int"  -> x.v # 0
      [] x.t = "obj"  -> TRUE
      [] OTHER        -> x.v # <<>>

\* key in d
RECURSIVE HasKeyIn(_, _)
HasKeyIn(kvs, k) ==
    IF kvs = <<>> THEN FALSE
    ELSE IF Head(kvs)[1] = k THEN TRUE
    ELSE HasKeyIn(Tail(kvs), k)

HasKey(d, k) == HasKeyIn(d.v, k)

\* d.get(k): the value, None when k is missing
RECURSIVE GetIn(_, _)
GetIn(kvs, k) ==
    IF kvs = <<>> THEN PyNone
    ELSE IF Head(kvs)[1] = k THEN Head(kvs)[2]
    ELSE GetIn(Tail(kvs), k)

Get(d, k) == GetIn(d.v, k)

\* a or b
PyOr(a, b) == IF Truthy(a) THEN a ELSE b

\* Keys the parser looks for
K_candidates == <<"c","a","n","d","i","d","a","t","e","s">>
K_content    == <<"c","o","n","t","e","n","t">>
K_output     == <<"o","u","t","p","u","t">>
K_parts      == <<"p","a","r","t","s">>
K_textParts  == <<"t","e","x","t","P","a","r","t","s">>
K_text       == <<"t","e","x","t">>
K_reply      == <<"r","e","p","l","y">>
K_message    == <<"m","e","s","s","a","g","e">>
K_choices    == <<"c","h","o","i","c","e","s">>
K_delta      == <<"d","e","l","t","a">>
\* Keys the parser does not look for
K_data       == <<"d","a","t","a">>
K_weird      == <<"w","e","i","r","d">>

-----------------------------------------------------------------------------
(* str(x) and repr(x) *)

Digit(n) == CASE n = 0 -> "0" [] n = 1 -> "1" [] n = 2 -> "2" [] n = 3 -> "3"
              [] n = 4 -> "4" [] n = 5 -> "5" [] n = 6 -> "6" [] n = 7 -> "7"
              [] n = 8 -> "8" [] n = 9 -> "9"

RECURSIVE NatStr(_)
NatStr(n) == IF n < 10 THEN <<Digit(n)>> ELSE NatStr(n \div 10) \o <<Digit(n % 10)>>

IntStr(n) == IF n < 0 THEN <<"-">> \o NatStr(-n) ELSE NatStr(n)

\* repr of one character inside a str literal
ReprChar(c) ==
    CASE c = "\n" -> <<"\\", "n">>
      [] c = "\r" -> <<"\\", "r">>
      [] c = "\t" -> <<"\\", "t">>
      [] c = "\\" -> <<"\\", "\\">>
      [] c = "'"  -> <<"\\", "'">>
      [] OTHER    -> <<c>>

RECURSIVE ReprChars(_)
ReprChars(s) == IF s = <<>> THEN <<>> ELSE ReprChar(Head(s)) \o ReprChars(Tail(s))

\* repr of one byte inside a bytes literal
ReprByte(b) ==
    CASE b = "xC3" -> <<"\\", "x", "c", "3">>
      [] b = "xBF" -> <<"\\", "x", "b", "f">>
      [] b = "xFF" -> <<"\\", "x", "f", "f">>
      [] OTHER     -> ReprChar(b)

RECURSIVE ReprBytes(_)
ReprBytes(s) == IF s = <<>> THEN <<>> ELSE ReprByte(Head(s)) \o ReprBytes(Tail(s))

RECURSIVE PyRepr(_)
RECURSIVE ReprItems(_)
RECURSIVE ReprPairs(_)
ReprItems(xs) ==
    IF xs = <<>> THEN <<>>
    ELSE IF Len(xs) = 1 THEN PyRepr(xs[1])
    ELSE PyRepr(xs[1]) \o <<",", " ">> \o ReprItems(Tail(xs))

ReprPairs(kvs) ==
    IF kvs = <<>> THEN <<>>
    ELSE LET one == <<"'">> \o ReprChars(kvs[1][1]) \o <<"'", ":", " ">> \o PyRepr(kvs[1][2])
         IN  IF Len(kvs) = 1 THEN one ELSE one \o <<",", " ">> \o ReprPairs(Tail(kvs))

PyRepr(x) ==
    CASE x.t = "none"  -> <<"N", "o", "n", "e">>
      [] x.t = "str"   -> <<"'">> \o ReprChars(x.v) \o <<"'">>
      [] x.t = "bytes" -> <<"b", "'">> \o ReprBytes(x.v) \o <<"'">>
      [] x.t = "int"   -> IntStr(x.v)
      [] x.t = "list"  -> <<"[">> \o ReprItems(x.v) \o <<"]">>
      [] x.t = "dict"  -> <<"{">> \o ReprPairs(x.v) \o <<"}">>
      [] x.t = "obj"   -> x.v

\* str(x)
ToStr(x) == IF x.t = "str" THEN x.v ELSE PyRepr(x)

\* bytes.decode("utf-8", errors="replace"): the two-byte sequence C3 BF is one
\* character, every other byte >= 0x80 is replaced by U+FFFD.
RECURSIVE DecodeUtf8Replace(_)
DecodeUtf8Replace(b) ==
    IF b = <<>> THEN <<>>
    ELSE IF b[1] = "xC3" /\ Len(b) >= 2 /\ b[2] = "xBF"
         THEN <<"U+00FF">> \o DecodeUtf8Replace(SubSeq(b, 3, Len(b)))
    ELSE IF b[1] \in {"xC3", "xBF", "xFF"}
         THEN <<"U+FFFD">> \o DecodeUtf8Replace(Tail(b))
    ELSE <<b[1]>> \o DecodeUtf8Replace(Tail(b))


-----------------------------------------------------------------------------
(* parse_gemini_response, ai_explainer.py:65-146 *)

Found(t) == [found |-> TRUE,  text |-> t]
NotFound == [found |-> FALSE, text |-> <<>>]

Returned(t)   == [kind |-> "return", text |-> t]
RaisedValueError == [kind |-> "ValueError", text |-> <<>>]
NotCalled     == [kind |-> "none", text |-> <<>>]

\* for key in keys: if key in d and isinstance(d[key], str): return d[key].strip()
RECURSIVE FirstStrUnder(_, _)
FirstStrUnder(d, keys) ==
    IF keys = <<>> THEN NotFound
    ELSE IF IsStr(Get(d, Head(keys))) THEN Found(Strip(Get(d, Head(keys)).v))
    ELSE FirstStrUnder(d, Tail(keys))

\* lines 104-110: parts[0] of the candidate's content
PartsPath(content) ==
    LET parts == PyOr(Get(content, K_parts), PyOr(Get(content, K_textParts), PyNone))
    IN  IF IsSeqLike(parts) /\ Truthy(parts)
        THEN LET part0 == parts.v[1]
             IN  IF IsDict(part0) /\ HasKey(part0, K_text)
                 THEN Found(Strip(ToStr(Get(part0, K_text))))
                 ELSE IF IsStr(part0) THEN Found(Strip(part0.v))
                 ELSE NotFound
        ELSE NotFound

\* lines 99-114: the candidates path
CandidatesPath(r) ==
    IF HasKey(r, K_candidates) /\ IsSeqLike(Get(r, K_candidates)) /\ Truthy(Get(r, K_candidates))
    THEN LET first == Get(r, K_candidates).v[1]
         IN  IF IsDict(first)
             THEN LET content == PyOr(Get(first, K_content), PyOr(Get(first, K_output), first))
                      viaParts == IF IsDict(content) THEN PartsPath(content) ELSE NotFound
                  IN  IF viaParts.found THEN viaParts
                      ELSE FirstStrUnder(first, <<K_text, K_content, K_output>>)
             ELSE NotFound
    ELSE NotFound

\* lines 116-125: the simple keys, each a str or a dict holding a str
RECURSIVE SimpleKeysPath(_, _)
SimpleKeysPath(r, keys) ==
    IF keys = <<>> THEN NotFound
    ELSE LET val == Get(r, Head(keys))
             nested == IF IsDict(val)
                       THEN FirstStrUnder(val, <<K_text, K_content, K_reply>>)
                       ELSE NotFound
         IN  IF IsStr(val) THEN Found(Strip(val.v))
             ELSE IF nested.found THEN nested
             ELSE SimpleKeysPath(r, Tail(keys))

SimpleKeys == <<K_reply, K_text, K_output, K_content, K_message>>

\* lines 127-134: chat-like choices
ChoicesPath(r) ==
    IF HasKey(r, K_choices) /\ Get(r, K_choices).t = "list" /\ Truthy(Get(r, K_choices))
    THEN LET c0 == Get(r, K_choices).v[1]
         IN  IF IsDict(c0)
             THEN LET msg == PyOr(Get(c0, K_message), PyOr(Get(c0, K_delta), c0))
                  IN  IF IsDict(msg)
                      THEN LET content == PyOr(Get(msg, K_content), Get(msg, K_text))
                           IN  IF IsStr(content) THEN Found(Strip(content.v)) ELSE NotFound
                      ELSE NotFound
             ELSE NotFound
    ELSE NotFound

\* Faulty variant: the choices are looked at before the simple keys
DictPaths_ChoicesFirst(r) ==
    IF CandidatesPath(r).found THEN CandidatesPath(r)
    ELSE IF ChoicesPath(r).found THEN ChoicesPath(r)
    ELSE SimpleKeysPath(r, SimpleKeys)

\* lines 97-134: the three paths of a dict, in the order of the code
DictPaths(r) ==
    IF CandidatesPath(r).found THEN CandidatesPath(r)
    ELSE IF SimpleKeysPath(r, SimpleKeys).found THEN SimpleKeysPath(r, SimpleKeys)
    ELSE ChoicesPath(r)

\* lines 138-146: str(resp), returned stripped when not empty
Stringify(r) ==
    IF ToStr(r) # <<>> THEN Returned(Strip(ToStr(r))) ELSE RaisedValueError

parse_gemini_response(r) ==
    IF r.t = "none" THEN RaisedValueError
    ELSE IF r.t = "str" THEN Returned(Strip(r.v))
    ELSE IF r.t = "bytes" THEN Returned(Strip(DecodeUtf8Replace(r.v)))
    ELSE IF r.t = "dict" /\ DictPaths(r).found THEN Returned(DictPaths(r).text)
    ELSE Stringify(r)


-----------------------------------------------------------------------------
(* get_explanation, ai_explainer.py:149-196 *)

\* Faulty variant: blank lines are kept
RECURSIVE CleanLines_KeepsBlank(_)
CleanLines_KeepsBlank(lines) ==
    IF lines = <<>> THEN <<>>
    ELSE <<RStrip(Head(lines))>> \o CleanLines_KeepsBlank(Tail(lines))

\* line 182: [line.rstrip() for line in lines if line.strip()]
RECURSIVE CleanLines(_)
CleanLines(lines) ==
    IF lines = <<>> THEN <<>>
    ELSE IF IsBlank(Head(lines)) THEN CleanLines(Tail(lines))
    ELSE <<RStrip(Head(lines))>> \o CleanLines(Tail(lines))

\* lines 182-183: the returned text
Normalize(explanation) == Join(<<"\n">>, CleanLines(Splitlines(Strip(explanation))))

RECURSIVE Pow2(_)
Pow2(n) == IF n <= 0 THEN 1 ELSE 2 * Pow2(n - 1)

\* Faulty variant: the exponent is attempt instead of attempt - 1
BackoffSleep_ExponentOff(base, att) == base * Pow2(att)

\* line 190: the sleep before the next attempt, attempt already incremented
BackoffSleep(base, att) == base * Pow2(att - 1)

\* Exceptions are objects: "at" is the chat call during which one was created.
NoExc == [type |-> "None", at |-> 0]
Exc(type, n) == [type |-> type, at |-> n]

\* What the client itself may raise
ClientExcTypes == {"GeminiAPIError", "RuntimeError"}

ChatCall     == [op |-> "chat",  arg |-> 0]
SleepCall(n) == [op |-> "sleep", arg |-> n]

Running == [kind |-> "running", text |-> <<>>, exc |-> NoExc]
ReturnedText(t) == [kind |-> "returned", text |-> t, exc |-> NoExc]
RaisedExc(e) == [kind |-> "raised", text |-> <<>>, exc |-> e]

\* All texts of at most n characters over alphabet A
RECURSIVE TextsUpTo(_, _)
TextsUpTo(A, n) ==
    IF n = 0 THEN {<<>>}
    ELSE LET shorter == TextsUpTo(A, n - 1)
         IN  shorter \cup {Append(t, c) : t \in shorter, c \in A}

ExplainAlphabet == {"a", " ", "\n"}

\* What gemini_client.chat may return in the model of get_explanation
ClientResponses ==
    {PyStr(t) : t \in TextsUpTo(ExplainAlphabet, MaxTextLen)}
    \cup {PyNone, PyObj(<<>>), PyBytes(<<"a", " ", "\n", "xFF">>),
          PyStr(<<"a", "\t", "\r", "\n", " ", "\r", "\n", "\t", "a", "\r", "a">>),
          PyDict(<< <<K_reply, PyStr(<<"a", " ", "\n", "\n", " ", "a", " ">>)>> >>),
          PyDict(<< <<K_weird, PyInt(123)>> >>)}

ExplainInit ==
    /\ retries \in 0..MaxRetries
    /\ backoff_seconds \in 0..MaxBackoff
    /\ attempt = 0
    /\ last_exc = NoExc
    /\ calls = <<>>
    /\ attempts = <<>>
    /\ outcome = Running

NumChats == Len(SelectSeq(calls, LAMBDA c : c.op = "chat"))
SleepsMade == SelectSeq(calls, LAMBDA c : c.op = "sleep")

\* Faulty variant: the budget test is off by one
BudgetExhausted_OffByOne(att, r) == att >= r

\* line 188: "if attempt > retries: break", attempt already incremented
BudgetExhausted(att, r) == att > r

\* Faulty variant: only the first exception is remembered
Remember_First(prev, exc) == IF prev = NoExc THEN exc ELSE prev

\* line 185: last_exc = exc
Remember(prev, exc) == exc

\* Faulty variant: the sleep comes before the budget test, so it also follows the last failure
HandleFailure_SleepsAlways(exc, how, value) ==
    /\ last_exc' = exc
    /\ attempt' = attempt + 1
    /\ attempts' = Append(attempts, [result |-> how, exc |-> exc, value |-> value])
    /\ calls' = calls \o <<ChatCall, SleepCall(backoff_seconds * Pow2(attempt))>>
    /\ outcome' = IF attempt + 1 > retries THEN RaisedExc(exc) ELSE Running
    /\ UNCHANGED <<retries, backoff_seconds>>

\* lines 184-192 and 194-196: the except branch, then the raise after the loop.
\* value is what chat returned (None when chat itself raised).
HandleFailure(exc, how, value) ==
    /\ last_exc' = Remember(last_exc, exc)
    /\ attempt' = attempt + 1
    /\ attempts' = Append(attempts, [result |-> how, exc |-> exc, value |-> value])
    /\ IF BudgetExhausted(attempt + 1, retries)
       THEN /\ calls' = Append(calls, ChatCall)
            /\ outcome' = RaisedExc(last_exc')
       ELSE /\ calls' = calls \o <<ChatCall, SleepCall(BackoffSleep(backoff_seconds, attempt + 1))>>
            /\ outcome' = Running
    /\ UNCHANGED <<retries, backoff_seconds>>

\* lines 176-183: chat returns a value that parses; the text is returned
AttemptSucceeds ==
    /\ outcome.kind = "running"
    /\ attempt <= retries
    /\ \E r \in ClientResponses :
         /\ parse_gemini_response(r).kind = "return"
         /\ calls' = Append(calls, ChatCall)
         /\ attempts' = Append(attempts, [result |-> "ok", exc |-> NoExc, value |-> r])
         /\ outcome' = ReturnedText(Normalize(parse_gemini_response(r).text))
    /\ UNCHANGED <<retries, backoff_seconds, attempt, last_exc>>

\* line 179 raises
AttemptChatRaises ==
    /\ outcome.kind = "running"
    /\ attempt <= retries
    /\ \E ty \in ClientExcTypes :
         HandleFailure(Exc(ty, NumChats + 1), "chat_raised", PyNone)

\* Faulty variant: the parse is outside the try, its failure ends the call at once
AttemptParseRaises_Uncaught ==
    /\ outcome.kind = "running"
    /\ attempt <= retries
    /\ \E r \in ClientResponses :
         /\ parse_gemini_response(r).kind = "ValueError"
         /\ calls' = Append(calls, ChatCall)
         /\ attempts' = Append(attempts, [result |-> "parse_raised",
                                          exc |-> Exc("ValueError", NumChats + 1), value |-> r])
         /\ outcome' = RaisedExc(Exc("ValueError", NumChats + 1))
    /\ UNCHANGED <<retries, backoff_seconds, attempt, last_exc>>

\* line 180 raises: the value returned by chat does not parse
AttemptParseRaises ==
    /\ outcome.kind = "running"
    /\ attempt <= retries
    /\ \E r \in ClientResponses :
         /\ parse_gemini_response(r).kind = "ValueError"
         /\ HandleFailure(Exc("ValueError", NumChats + 1), "parse_raised", r)

ParseIdle == resp = PyNone /\ parsed = NotCalled
NotParsed == [called |-> FALSE, out |-> <<>>]
LogIdle   == raw = PyNone /\ events = NotParsed

chatVars  == <<http, cpc, chat_out>>
pureVars  == <<fn, arg, ret>>
uiVars    == <<ui_platform, ui_pc, loaded_events, filtered_events, last_loaded_winlog_type,
               loaded_from_file, max_events, log_type_var, last_call>>
laterVars == <<chatVars, pureVars, uiVars>>

\* chat is not called
ChatIdle == http = <<>> /\ cpc = "idle" /\ chat_out = <<>>

\* no function is called on its own
PureIdle == fn = "none" /\ arg = <<>> /\ ret = <<>>

\* no window is open
UiIdle ==
    /\ ui_platform = "Linux" /\ ui_pc = "none"
    /\ loaded_events = <<>> /\ filtered_events = <<>>
    /\ last_loaded_winlog_type = "None" /\ loaded_from_file = FALSE
    /\ max_events = 0 /\ log_type_var = "" /\ last_call = <<>>

LaterIdle == ChatIdle /\ PureIdle /\ UiIdle

\* read_windows_event_log is not called
NotRead == [kind |-> "idle", events |-> <<>>]

ReadIdle ==
    /\ platform_system = "Linux" /\ win32_available = FALSE
    /\ log_type = "System" /\ max_records = 0
    /\ rpc = "idle" /\ hand = "none" /\ total = 0
    /\ native_events = <<>> /\ syscalls = <<>> /\ result = NotRead

Init == ExplainInit /\ ParseIdle /\ LogIdle /\ ReadIdle /\ LaterIdle

Next ==
    \/ AttemptSucceeds /\ UNCHANGED <<parseVars, logVars, readVars, laterVars>>
    \/ AttemptChatRaises /\ UNCHANGED <<parseVars, logVars, readVars, laterVars>>
    \/ AttemptParseRaises /\ UNCHANGED <<parseVars, logVars, readVars, laterVars>>

Spec == Init /\ [][Next]_vars


-----------------------------------------------------------------------------
(* Claims about get_explanation, checked under Spec *)

Finished == outcome.kind # "running"
LastAttempt == attempts[Len(attempts)]
Failed(i) == attempts[i].result # "ok"

\* C1: get_explanation calls chat at most retries+1 times, one call per attempt;
\* no attempt follows a successful one, the text returned is the normalized text
\* parsed from the successful attempt's value, and when every attempt fails
\* exactly retries+1 calls were made.
C1_AtMostRetriesPlusOneCalls ==
    /\ NumChats <= retries + 1
    /\ NumChats = Len(attempts)
    /\ \A i \in 1..(Len(attempts) - 1) : Failed(i)
    /\ (Len(attempts) > 0 /\ ~Failed(Len(attempts))) =>
          outcome = ReturnedText(Normalize(parse_gemini_response(LastAttempt.value).text))
    /\ (Finished /\ \A i \in 1..Len(attempts) : Failed(i)) => NumChats = retries + 1

\* A call that failed once and then succeeded with attempts to spare
C1_Witness ==
    /\ retries = 3
    /\ outcome.kind = "returned"
    /\ NumChats = 2
    /\ Failed(1)
    /\ outcome.text = <<"a">>

\* C2: the calls alternate chat, sleep, chat, ...: the first call is a chat, a
\* sleep only follows a failed attempt that is not the last, and the last call of
\* a finished get_explanation is a chat, so sleeps = chats - 1.
C2_SleepsAreChatsMinusOne ==
    /\ \A i \in 1..Len(calls) : calls[i].op = (IF i % 2 = 1 THEN "chat" ELSE "sleep")
    /\ \A i \in 1..Len(calls) : calls[i].op = "sleep" => Failed(i \div 2)
    /\ Finished => /\ calls[Len(calls)].op = "chat"
                   /\ Len(SleepsMade) = NumChats - 1
    /\ (Finished /\ retries = 0) => SleepsMade = <<>>

\* One failure then a success under retries = 1: two chats, one sleep between them
C2_Witness ==
    /\ retries = 1
    /\ outcome.kind = "returned"
    /\ Len(calls) = 3
    /\ calls[2].op = "sleep"

\* C3: when all retries+1 attempts fail, the exception raised is the one created
\* by the last attempt (not an earlier one), and a call whose last attempt failed
\* never ends with a normal return.
C3_LastExceptionPropagates ==
    /\ outcome.kind = "raised" =>
          /\ Len(attempts) = retries + 1
          /\ outcome.exc = LastAttempt.exc
          /\ outcome.exc.at = retries + 1
          /\ \A i \in 1..(Len(attempts) - 1) : outcome.exc # attempts[i].exc
    /\ (Finished /\ Failed(Len(attempts))) => outcome.kind = "raised"
    /\ outcome.kind = "returned" => outcome.exc = NoExc

\* Three failed attempts with different kinds of failure; the third one is raised
C3_Witness ==
    /\ retries = 2
    /\ outcome.kind = "raised"
    /\ attempts[1].exc.type = "GeminiAPIError"
    /\ attempts[3].exc.type = "RuntimeError"
    /\ outcome.exc = Exc("RuntimeError", 3)

\* C4: the first sleep lasts backoff_seconds and each later sleep lasts twice the
\* one before it, that is the k-th sleep lasts backoff_seconds * 2^(k-1).
C4_BackoffDoubles ==
    /\ Len(SleepsMade) <= retries
    /\ Len(SleepsMade) >= 1 => SleepsMade[1].arg = backoff_seconds
    /\ \A k \in 2..Len(SleepsMade) : SleepsMade[k].arg = 2 * SleepsMade[k - 1].arg
    /\ \A k \in 1..Len(SleepsMade) : SleepsMade[k].arg = backoff_seconds * (2 ^ (k - 1))

\* Three sleeps of 2, 4 and 8 units
C4_Witness ==
    /\ backoff_seconds = 2
    /\ Len(SleepsMade) = 3
    /\ SleepsMade[3].arg = 8

\* C5: an attempt whose value does not parse is treated as an attempt whose chat
\* raised: it counts as one attempt, it is followed by the backoff sleep of its
\* rank when attempts remain, and its ValueError is what get_explanation raises
\* when it was the last attempt.
C5_ParseFailureIsRetried ==
    /\ attempt = Cardinality({i \in 1..Len(attempts) : Failed(i)})
    /\ \A i \in 1..Len(attempts) :
          attempts[i].result \in {"parse_raised", "chat_raised"} =>
             /\ attempts[i].result = "parse_raised" =>
                   /\ attempts[i].exc = Exc("ValueError", i)
                   /\ parse_gemini_response(attempts[i].value) = RaisedValueError
             /\ i <= retries =>
                   /\ Len(calls) >= 2 * i
                   /\ calls[2 * i] = SleepCall(BackoffSleep(backoff_seconds, i))
                   /\ (Len(attempts) = i => ~Finished)
             /\ i = retries + 1 => outcome = RaisedExc(attempts[i].exc)

\* A None value, a retry, then a second None value as the last attempt
C5_Witness ==
    /\ retries = 1
    /\ Len(attempts) = 2
    /\ attempts[1].result = "parse_raised"
    /\ attempts[1].value = PyNone
    /\ attempts[2].result = "parse_raised"
    /\ outcome = RaisedExc(Exc("ValueError", 2))

HasNoLineBreak(t) == \A i \in 1..Len(t) : t[i] \notin LineBreaks

\* C9: the returned text has no blank line and no line with trailing whitespace,
\* its lines are the non-blank lines of the parsed response, right-trimmed, in
\* the same order, separated by exactly one "\n", and normalizing it again
\* changes nothing.
C9_NormalizedText ==
    outcome.kind = "returned" =>
       LET t == outcome.text
           p == parse_gemini_response(LastAttempt.value).text
           kept == SelectSeq(Splitlines(p), NotBlank)
           got == Splitlines(t)
       IN  /\ \A i \in 1..Len(got) : ~IsBlank(got[i]) /\ RStrip(got[i]) = got[i]
           /\ Len(got) = Len(kept)
           /\ \A i \in 1..Len(got) : got[i] = RStrip(kept[i])
           /\ \A i \in 1..Len(got) : HasNoLineBreak(got[i])
           /\ Len(t) = (IF got = <<>> THEN 0
                        ELSE Len(Join(<<>>, got)) + Len(got) - 1)
           /\ \A i \in 1..Len(t) : t[i] # "\r"
           /\ Normalize(t) = t

\* A response with a blank line and trailing spaces comes back as two clean lines
C9_Witness ==
    /\ outcome.kind = "returned"
    /\ LastAttempt.value = PyDict(<< <<K_reply, PyStr(<<"a", " ", "\n", "\n", " ", "a", " ">>)>> >>)
    /\ outcome.text = <<"a", "\n", " ", "a">>


-----------------------------------------------------------------------------
(* parse_gemini_response on its own, checked under SpecParse *)

MaxKeys == 3

Txt(c) == PyStr(<<c>>)
Padded(c) == PyStr(<<" ", c, "\n">>)
One(k, x) == PyDict(<< <<k, x>> >>)
WithParts(x) == One(K_parts, PyList(<<x>>))

\* Values of the key "candidates"
CandidatesOptions ==
    << PyList(<<One(K_content, WithParts(One(K_text, Padded("p"))))>>),
       PyList(<<One(K_text, Padded("q"))>>),
       PyList(<<PyDict(<< <<K_content, WithParts(One(K_text, Txt("p")))>>, <<K_text, Txt("q")>> >>)>>),
       PyList(<<PyDict(<< <<K_output, WithParts(Txt("u"))>>, <<K_text, Txt("q")>> >>)>>),
       PyList(<<One(K_content, WithParts(One(K_text, PyStr(<<>>))))>>),
       PyList(<<PyDict(<< <<K_output, Txt("o")>>, <<K_content, Txt("k")>> >>)>>),
       PyList(<<One(K_content, WithParts(One(K_text, PyInt(42))))>>),
       PyList(<<>>),
       Txt("z") >>

ChoicesOptions ==
    << PyList(<<One(K_message, One(K_content, Padded("h")))>>),
       PyList(<<One(K_delta, One(K_content, Txt("d")))>>),
       PyList(<<One(K_text, Txt("x"))>>),
       PyList(<<One(K_message, One(K_content, PyStr(<<>>)))>>),
       PyList(<<>>) >>

\* The keys a response may hold, in the order they are inserted, with the values
\* each may take
KeyOptions ==
    << <<K_candidates, CandidatesOptions>>,
       <<K_reply,   <<Padded("r"), PyStr(<<>>), One(K_text, Txt("R")), PyInt(7)>> >>,
       <<K_text,    <<Padded("t"), One(K_content, Txt("T"))>> >>,
       <<K_output,  <<Txt("o"), PyStr(<<" ">>)>> >>,
       <<K_content, <<Txt("c"), PyList(<<>>)>> >>,
       <<K_message, <<Txt("m"), One(K_content, Txt("M")), One(K_weird, PyInt(1))>> >>,
       <<K_choices, ChoicesOptions>>,
       <<K_data,    <<One(K_text, Padded("N"))>> >>,
       <<K_weird,   <<PyInt(123)>> >> >>

\* The item lists of the dicts that hold at most budget of the keys from the i-th on
RECURSIVE ItemsFrom(_, _)
ItemsFrom(i, budget) ==
    IF i > Len(KeyOptions) THEN {<<>>}
    ELSE ItemsFrom(i + 1, budget)
         \cup (IF budget = 0 THEN {}
               ELSE {<< <<KeyOptions[i][1], KeyOptions[i][2][j]>> >> \o rest :
                        j \in 1..Len(KeyOptions[i][2]), rest \in ItemsFrom(i + 1, budget - 1)})

ParseInputs ==
    {PyDict(items) : items \in ItemsFrom(1, MaxKeys)}
    \cup {PyNone, PyStr(<<>>), PyStr(<<" ", "\n">>), PyStr(<<"a">>), PyStr(<<" ", "a", " ", "b", "\n">>),
          PyBytes(<<>>), PyBytes(<<"a", " ">>), PyBytes(<<"xFF", "a">>), PyBytes(<<" ", "xC3", "xBF">>),
          PyList(<<>>), PyList(<<Txt("a")>>), PyInt(0), PyObj(<<>>), PyObj(<<" ">>), PyObj(<<"a", " ">>)}

ExplainIdle ==
    /\ retries = 0
    /\ backoff_seconds = 1
    /\ attempt = 0
    /\ last_exc = NoExc
    /\ calls = <<>>
    /\ attempts = <<>>
    /\ outcome = Running

InitParse ==
    /\ resp \in ParseInputs
    /\ parsed = NotCalled
    /\ ExplainIdle
    /\ LogIdle
    /\ ReadIdle
    /\ LaterIdle

CallParse ==
    /\ parsed = NotCalled
    /\ parsed' = parse_gemini_response(resp)
    /\ UNCHANGED <<resp, explainVars, logVars, readVars, laterVars>>

NextParse == CallParse

SpecParse == InitParse /\ [][NextParse]_vars

ParseDone == parsed # NotCalled

\* The shapes of a dict in the order of their priority: the candidates, the five
\* simple keys one by one, the choices
ShapeYields(r) ==
    << CandidatesPath(r),
       SimpleKeysPath(r, <<K_reply>>),
       SimpleKeysPath(r, <<K_text>>),
       SimpleKeysPath(r, <<K_output>>),
       SimpleKeysPath(r, <<K_content>>),
       SimpleKeysPath(r, <<K_message>>),
       ChoicesPath(r) >>

\* The shapes as the claim words them: only candidates[0].content.parts[0].text,
\* the flat strings of the first candidate, the flat string fields and a
\* non-empty choices[0].message.content
ListedCandidate(r) ==
    LET cands == Get(r, K_candidates)
        first == IF IsSeqLike(cands) /\ Truthy(cands) THEN cands.v[1] ELSE PyNone
        parts == IF IsDict(first) /\ IsDict(Get(first, K_content))
                 THEN Get(Get(first, K_content), K_parts) ELSE PyNone
        part0 == IF IsSeqLike(parts) /\ Truthy(parts) THEN parts.v[1] ELSE PyNone
    IN  IF IsDict(part0) /\ HasKey(part0, K_text) THEN Found(Strip(ToStr(Get(part0, K_text))))
        ELSE IF IsDict(first) THEN FirstStrUnder(first, <<K_text, K_content, K_output>>)
        ELSE NotFound

ListedChoice(r) ==
    LET chs == Get(r, K_choices)
        c0 == IF IsSeqLike(chs) /\ Truthy(chs) THEN chs.v[1] ELSE PyNone
        msg == IF IsDict(c0) THEN Get(c0, K_message) ELSE PyNone
    IN  IF IsDict(msg) /\ IsStr(Get(msg, K_content)) /\ Truthy(Get(msg, K_content))
        THEN Found(Strip(Get(msg, K_content).v))
        ELSE NotFound

ListedYields(r) ==
    << ListedCandidate(r),
       FirstStrUnder(r, <<K_reply>>), FirstStrUnder(r, <<K_text>>), FirstStrUnder(r, <<K_output>>),
       FirstStrUnder(r, <<K_content>>), FirstStrUnder(r, <<K_message>>),
       ListedChoice(r) >>

AnyFound(ys) == \E i \in 1..Len(ys) : ys[i].found
FirstFound(ys) == ys[CHOOSE i \in 1..Len(ys) : ys[i].found /\ \A j \in 1..(i - 1) : ~ys[j].found]

\* C6 as stated: the text comes from the first of the listed shapes that holds text
C6_AsStated ==
    (ParseDone /\ IsDict(resp) /\ AnyFound(ListedYields(resp))) =>
        parsed = Returned(FirstFound(ListedYields(resp)).text)

\* C6 (amended): the text of a dict comes from the first shape that yields one, in
\* the order candidates[0], reply, text, output, content, message, choices[0],
\* where a simple key yields its string or, when it is a dict, the first string
\* under text/content/reply; the whole value is stringified only when no shape
\* yields; a choices-only dict gives its message content, a reply-only dict its reply.
C6_PriorityOrder ==
    (ParseDone /\ IsDict(resp)) =>
        /\ AnyFound(ShapeYields(resp)) => parsed = Returned(FirstFound(ShapeYields(resp)).text)
        /\ ~AnyFound(ShapeYields(resp)) => parsed = Returned(Strip(PyRepr(resp)))
        /\ parsed = Returned(Strip(PyRepr(resp))) => ~AnyFound(ListedYields(resp))
        /\ resp = One(K_choices, ChoicesOptions[1]) => parsed = Returned(<<"h">>)
        /\ resp = One(K_reply, Padded("r")) => parsed = Returned(<<"r">>)

\* A dict that holds a candidate, a reply and choices parses to the candidate's text
C6_Witness ==
    /\ ParseDone
    /\ resp = PyDict(<< <<K_candidates, CandidatesOptions[1]>>, <<K_reply, Padded("r")>>,
                        <<K_choices, ChoicesOptions[1]>> >>)
    /\ parsed = Returned(<<"p">>)

\* C7: parse_gemini_response raises ValueError exactly when the response is None
\* or no text can be extracted from it, so the text it returns for a str, bytes
\* or dict response is never empty.
C7_RaisesWhenNothingExtracted ==
    ParseDone =>
        /\ resp = PyNone => parsed = RaisedValueError
        /\ (resp.t \in {"str", "obj"} /\ IsBlank(ToStr(resp))) => parsed = RaisedValueError
        /\ parsed = RaisedValueError => (resp = PyNone \/ IsBlank(ToStr(resp)))
        /\ (parsed.kind = "return" /\ resp.t \in {"str", "bytes", "dict"}) => parsed.text # <<>>

\* C8: a dict whose only key is not a recognized one and holds a dict with a
\* string under "text" parses to that string.
C8_NestedUnderUnknownKey ==
    (/\ ParseDone
     /\ IsDict(resp)
     /\ Len(resp.v) = 1
     /\ resp.v[1][1] = K_data
     /\ IsDict(resp.v[1][2])
     /\ IsStr(Get(resp.v[1][2], K_text)))
    => parsed = Returned(Strip(Get(resp.v[1][2], K_text).v))


-----------------------------------------------------------------------------
(* Log text, parser.py.  Besides single characters a log text may hold these *)
(* literals, each one element of the sequence:                              *)
(*   "TS"   2024-01-25 10:33:22   (matches _TIMESTAMP_PATTERNS[0])          *)
(*   "HMS"  10:33:22              (matches only "^\d{2}:\d{2}:\d{2}")       *)
(*   "X50"  fifty letters x                                                 *)
(*   the tags <Event> </Event> <EventRecord> </EventRecord> <Data> </Data>  *)
(*   "<?xml?>"  the declaration <?xml version="1.0"?>                       *)
(* "&" is the one character that makes XML text ill-formed.                 *)

Width(c) ==
    CASE c = "TS"  -> 19
      [] c = "HMS" -> 8
      [] c = "X50" -> 50
      [] c = "<Event>" -> 7
      [] c = "</Event>" -> 8
      [] c = "<EventRecord>" -> 13
      [] c = "</EventRecord>" -> 14
      [] c = "<Data>" -> 6
      [] c = "</Data>" -> 7
      [] c = "<?xml?>" -> 21
      [] OTHER -> 1

\* line 113: the window in which a timestamp is searched
TimestampWindow == 50

\* lines 29-39 and 113: _TIMESTAMP_RE.search(line[:50]): a full timestamp lies
\* inside the window, or the line starts with a time.  off is the number of
\* characters before s[i].
RECURSIVE TimestampFrom(_, _, _)
TimestampFrom(s, i, off) ==
    IF i > Len(s) THEN FALSE
    ELSE IF s[i] = "TS" /\ off + Width("TS") <= TimestampWindow THEN TRUE
    ELSE IF s[i] = "HMS" /\ off = 0 THEN TRUE
    ELSE TimestampFrom(s, i + 1, off + Width(s[i]))

HasTimestamp(line) == TimestampFrom(line, 1, 0)

\* re.sub(r"\s+\n", "\n", ev), line 128: in each run of whitespace, what comes
\* before its last "\n" (at least one character) is dropped
RECURSIVE RunEnd(_, _)
RunEnd(s, i) == IF i <= Len(s) /\ IsSpace(s[i]) THEN RunEnd(s, i + 1) ELSE i

\* the last position in i..(j-1) holding "\n", 0 when there is none
RECURSIVE LastNewline(_, _, _)
LastNewline(s, i, j) ==
    IF j <= i THEN 0
    ELSE IF s[j - 1] = "\n" THEN j - 1
    ELSE LastNewline(s, i, j - 1)

RECURSIVE SquashBeforeNewline(_, _)
SquashBeforeNewline(s, i) ==
    IF i > Len(s) THEN <<>>
    ELSE IF ~IsSpace(s[i]) THEN <<s[i]>> \o SquashBeforeNewline(s, i + 1)
    ELSE LET e == RunEnd(s, i)
             k == LastNewline(s, i, e)
         IN  IF k > i
             THEN <<"\n">> \o SubSeq(s, k + 1, e - 1) \o SquashBeforeNewline(s, e)
             ELSE SubSeq(s, i, e - 1) \o SquashBeforeNewline(s, e)

\* Faulty variant: a timestamp line is appended to the open event instead of
\* closing it
RECURSIVE GroupLines_AnchorAppended(_, _)
GroupLines_AnchorAppended(lines, cur) ==
    IF lines = <<>>
    THEN (IF cur # <<>> THEN <<Strip(Join(<<"\n">>, cur))>> ELSE <<>>)
    ELSE LET line == Head(lines)
         IN  IF IsBlank(line)
             THEN GroupLines_AnchorAppended(Tail(lines),
                                            IF cur # <<>> THEN Append(cur, <<>>) ELSE cur)
             ELSE GroupLines_AnchorAppended(Tail(lines), Append(cur, RStrip(line)))

\* lines 105-125: the loop of _split_by_timestamp; cur is the list "current"
RECURSIVE GroupLines(_, _)
GroupLines(lines, cur) ==
    IF lines = <<>>
    THEN (IF cur # <<>> THEN <<Strip(Join(<<"\n">>, cur))>> ELSE <<>>)
    ELSE LET line == Head(lines)
         IN  IF IsBlank(line)
             THEN GroupLines(Tail(lines), IF cur # <<>> THEN Append(cur, <<>>) ELSE cur)
             ELSE IF HasTimestamp(line)
             THEN (IF cur # <<>>
                   THEN <<Strip(Join(<<"\n">>, cur))>> \o GroupLines(Tail(lines), <<RStrip(line)>>)
                   ELSE GroupLines(Tail(lines), <<RStrip(line)>>))
             ELSE GroupLines(Tail(lines), Append(cur, RStrip(line)))

\* line 128: the post-processing of the groups
RECURSIVE PostProcess(_)
PostProcess(evs) ==
    IF evs = <<>> THEN <<>>
    ELSE IF IsBlank(Head(evs)) THEN PostProcess(Tail(evs))
    ELSE <<Strip(SquashBeforeNewline(Head(evs), 1))>> \o PostProcess(Tail(evs))

\* _split_by_timestamp, lines 96-128
split_by_timestamp(lines) == PostProcess(GroupLines(lines, <<>>))

\* re.split(r"\n\s*\n+", text), line 92: a separator starts at a "\n" and runs
\* to the last "\n" of the whitespace that follows it
RECURSIVE SplitBlocks(_, _, _)
SplitBlocks(s, i, cur) ==
    IF i > Len(s) THEN <<cur>>
    ELSE IF s[i] = "\n" /\ LastNewline(s, i + 1, RunEnd(s, i + 1)) > 0
         THEN <<cur>> \o SplitBlocks(s, LastNewline(s, i + 1, RunEnd(s, i + 1)) + 1, <<>>)
    ELSE SplitBlocks(s, i + 1, Append(cur, s[i]))

RECURSIVE StripNonBlank(_)
StripNonBlank(blocks) ==
    IF blocks = <<>> THEN <<>>
    ELSE IF IsBlank(Head(blocks)) THEN StripNonBlank(Tail(blocks))
    ELSE <<Strip(Head(blocks))>> \o StripNonBlank(Tail(blocks))

\* _split_by_blank_lines, lines 90-93
split_by_blank_lines(text) == StripNonBlank(SplitBlocks(text, 1, <<>>))

\* Faulty variant: the lines are kept as they are, not stripped
simple_lines_Unstripped(lines) == SelectSeq(lines, NotBlank)

\* line 180: [ln.strip() for ln in lines if ln.strip()]
simple_lines(lines) == StripNonBlank(lines)


-----------------------------------------------------------------------------
(* XML, parser.py:42-87 *)

OpenTags  == {"<Event>", "<EventRecord>", "<Data>"}
CloseTags == {"</Event>", "</EventRecord>", "</Data>"}
XmlDecl   == "<?xml?>"

CloseOf(open) ==
    CASE open = "<Event>" -> "</Event>"
      [] open = "<EventRecord>" -> "</EventRecord>"
      [] open = "<Data>" -> "</Data>"

IsTag(c) == c \in OpenTags \cup CloseTags \cup {XmlDecl}

Contains(s, c) == \E i \in 1..Len(s) : s[i] = c

\* _is_xml_like, lines 42-46
is_xml_like(text) ==
    \/ Contains(text, "<Event>") \/ Contains(text, "<EventRecord>")
    \/ (Strip(text) # <<>> /\ Strip(text)[1] = XmlDecl)

\* ET.fromstring, line 64: whether the tokens from i on are well-formed given the
\* stack of open elements.  In a document of its own (inDoc) exactly one root
\* element is allowed, with nothing but whitespace around it; a declaration is
\* only allowed as the very first token of a document.
RECURSIVE WellFormedFrom(_, _, _, _, _)
WellFormedFrom(s, i, stack, roots, inDoc) ==
    IF i > Len(s) THEN (IF inDoc THEN stack = <<>> /\ roots = 1 ELSE Len(stack) = 1)
    ELSE LET c == s[i]
         IN  IF c = "&" THEN FALSE
             ELSE IF c = XmlDecl THEN inDoc /\ i = 1 /\ WellFormedFrom(s, i + 1, stack, roots, inDoc)
             ELSE IF c \in OpenTags
                  THEN IF stack = <<>> /\ roots >= 1 THEN FALSE
                       ELSE WellFormedFrom(s, i + 1, <<c>> \o stack,
                                           IF stack = <<>> THEN roots + 1 ELSE roots, inDoc)
             ELSE IF c \in CloseTags
                  THEN stack # <<>> /\ Head(stack) \in OpenTags /\ CloseOf(Head(stack)) = c
                       /\ WellFormedFrom(s, i + 1, Tail(stack), roots, inDoc)
             ELSE IF stack = <<>> /\ ~IsSpace(c) THEN FALSE
             ELSE WellFormedFrom(s, i + 1, stack, roots, inDoc)

\* lines 59-64: the text is parsed as it stands when it starts with a
\* declaration, inside <Root>...</Root> otherwise
StartsWithDecl(text) == Strip(text) # <<>> /\ Strip(text)[1] = XmlDecl

ParsesAsXml(text) ==
    IF StartsWithDecl(text)
    THEN WellFormedFrom(text, 1, <<>>, 0, TRUE)
    ELSE WellFormedFrom(text, 1, <<"<Root>">>, 0, FALSE)

\* the position of the end tag of the element opened at i (well-formed text)
RECURSIVE EndOf(_, _, _)
EndOf(s, j, depth) ==
    IF s[j] \in OpenTags THEN EndOf(s, j + 1, depth + 1)
    ELSE IF s[j] \in CloseTags THEN (IF depth = 1 THEN j ELSE EndOf(s, j + 1, depth - 1))
    ELSE EndOf(s, j + 1, depth)

\* node.text: the text between a start tag and the next tag
RECURSIVE TextFrom(_, _)
TextFrom(s, j) ==
    IF j > Len(s) \/ IsTag(s[j]) THEN <<>> ELSE <<s[j]>> \o TextFrom(s, j + 1)

\* lines 79-82: the stripped texts of the element opened at i and of its
\* descendants, in document order
RECURSIVE Pieces(_, _, _)
Pieces(s, j, end) ==
    IF j >= end THEN <<>>
    ELSE IF s[j] \in OpenTags /\ ~IsBlank(TextFrom(s, j + 1))
         THEN <<Strip(TextFrom(s, j + 1))>> \o Pieces(s, j + 1, end)
    ELSE Pieces(s, j + 1, end)

\* re.sub(r"\s+", " ", x), lines 71 and 85
RECURSIVE CollapseSpace(_, _)
CollapseSpace(s, i) ==
    IF i > Len(s) THEN <<>>
    ELSE IF IsSpace(s[i]) THEN <<" ">> \o CollapseSpace(s, RunEnd(s, i))
    ELSE <<s[i]>> \o CollapseSpace(s, i + 1)

\* lines 78-85: the event of the element opened at i, <<>> when it has no text
ElementEvent(s, i) ==
    LET joined == Join(<<" ", "|", " ">>, Pieces(s, i, EndOf(s, i, 0)))
    IN  Strip(CollapseSpace(joined, 1))

\* root.findall(".//tag"): the events of the elements named tag below the root,
\* in document order; the root itself (first) is not one of them
RECURSIVE EventsOfTag(_, _, _, _)
EventsOfTag(s, tag, i, first) ==
    IF i > Len(s) THEN <<>>
    ELSE IF s[i] = tag /\ i # first /\ ElementEvent(s, i) # <<>>
         THEN <<ElementEvent(s, i)>> \o EventsOfTag(s, tag, i + 1, first)
    ELSE EventsOfTag(s, tag, i + 1, first)

\* the position of the first start tag, 0 when there is none
RECURSIVE FirstOpen(_, _)
FirstOpen(s, i) ==
    IF i > Len(s) THEN 0 ELSE IF s[i] \in OpenTags THEN i ELSE FirstOpen(s, i + 1)

\* line 77: the Event elements first, then the EventRecord elements
ParsedXmlEvents(text) ==
    LET root == IF StartsWithDecl(text) THEN FirstOpen(text, 1) ELSE 0
    IN  EventsOfTag(text, "<Event>", 1, root) \o EventsOfTag(text, "<EventRecord>", 1, root)

\* re.sub(r"<[^>]+>", " ", block), line 70
RECURSIVE TagsToSpace(_)
TagsToSpace(s) ==
    IF s = <<>> THEN <<>>
    ELSE (IF IsTag(Head(s)) THEN <<" ">> ELSE <<Head(s)>>) \o TagsToSpace(Tail(s))

\* the position of the first Event/EventRecord end tag from i on, 0 when none
RECURSIVE FirstEventClose(_, _)
FirstEventClose(s, i) ==
    IF i > Len(s) THEN 0
    ELSE IF s[i] \in {"</Event>", "</EventRecord>"} THEN i
    ELSE FirstEventClose(s, i + 1)

\* lines 67-73: block_re.findall(text), each block stripped of its tags
RECURSIVE RegexBlocks(_, _)
RegexBlocks(s, i) ==
    IF i > Len(s) THEN <<>>
    ELSE IF s[i] \in {"<Event>", "<EventRecord>"} /\ FirstEventClose(s, i + 1) > 0
         THEN LET c == FirstEventClose(s, i + 1)
                  cleaned == Strip(CollapseSpace(TagsToSpace(SubSeq(s, i, c)), 1))
              IN  (IF cleaned # <<>> THEN <<cleaned>> ELSE <<>>) \o RegexBlocks(s, c + 1)
    ELSE RegexBlocks(s, i + 1)

\* _extract_events_from_xml, lines 49-87
extract_events_from_xml(text) ==
    IF ParsesAsXml(text) THEN ParsedXmlEvents(text) ELSE RegexBlocks(text, 1)


-----------------------------------------------------------------------------
(* parse_log, parser.py:131-185 *)

HighBytes == {"xC3", "xBF", "xFF"}

\* raw.decode("utf-8") succeeds: the only sequence of high bytes is C3 BF
RECURSIVE Utf8Valid(_)
Utf8Valid(b) ==
    IF b = <<>> THEN TRUE
    ELSE IF b[1] = "xC3" THEN Len(b) >= 2 /\ b[2] = "xBF" /\ Utf8Valid(SubSeq(b, 3, Len(b)))
    ELSE IF b[1] \in HighBytes THEN FALSE
    ELSE Utf8Valid(Tail(b))

\* raw.decode("latin-1"): one character per byte
RECURSIVE DecodeLatin1(_)
DecodeLatin1(b) ==
    IF b = <<>> THEN <<>>
    ELSE <<(CASE b[1] = "xC3" -> "U+00C3" [] b[1] = "xBF" -> "U+00BF"
              [] b[1] = "xFF" -> "U+00FF" [] OTHER -> b[1])>> \o DecodeLatin1(Tail(b))

\* lines 145-155: the text of raw
LogText(r) ==
    IF r.t = "bytes"
    THEN (IF Utf8Valid(r.v) THEN DecodeUtf8Replace(r.v) ELSE DecodeLatin1(r.v))
    ELSE ToStr(r)

\* Faulty variant: one timestamp group is enough for the timestamp tier
Cascade_OneGroupEnough(text) ==
    LET lines == Splitlines(text)
    IN  IF is_xml_like(text) /\ extract_events_from_xml(text) # <<>>
        THEN extract_events_from_xml(text)
        ELSE IF Len(split_by_timestamp(lines)) >= 1 THEN split_by_timestamp(lines)
        ELSE IF Len(split_by_blank_lines(text)) >= 2 THEN split_by_blank_lines(text)
        ELSE IF simple_lines(lines) # <<>> THEN simple_lines(lines)
        ELSE <<text>>

\* lines 157-185 on the stripped text, which is not empty
Cascade(text) ==
    LET lines == Splitlines(text)
    IN  IF is_xml_like(text) /\ extract_events_from_xml(text) # <<>>
        THEN extract_events_from_xml(text)
        ELSE IF Len(split_by_timestamp(lines)) >= 2 THEN split_by_timestamp(lines)
        ELSE IF Len(split_by_blank_lines(text)) >= 2 THEN split_by_blank_lines(text)
        ELSE IF simple_lines(lines) # <<>> THEN simple_lines(lines)
        ELSE <<text>>

parse_log(r) ==
    IF r.t = "none" THEN <<>>
    ELSE IF Strip(LogText(r)) = <<>> THEN <<>>
    ELSE Cascade(Strip(LogText(r)))

MaxLines == 3

\* The lines a log text is made of
LinePool ==
    { <<>>,
      <<" ">>,
      <<" ", "b", "\t">>,
      <<"TS", " ", "a">>,
      <<"HMS">>,
      <<"X50", "TS">>,
      <<"<Event>", "a", "</Event>">>,
      <<"<EventRecord>", "<Data>", " ", "b", "</Data>", "c", "</EventRecord>">>,
      <<"<Event>">>,
      <<"</Event>">>,
      <<"&">>,
      <<"<?xml?>">> }

RECURSIVE LineListsUpTo(_)
LineListsUpTo(n) ==
    IF n = 0 THEN {<<>>}
    ELSE LET shorter == LineListsUpTo(n - 1)
         IN  shorter \cup {Append(ls, l) : ls \in shorter, l \in LinePool}

LogInputs ==
    {PyStr(Join(<<"\n">>, ls)) : ls \in LineListsUpTo(MaxLines)}
    \cup {PyNone, PyInt(0),
          PyStr(<<"a", "\r", "\n", "\r", "\n", "b", " ", "\r", "TS">>),
          PyStr(<<"TS", " ", "a", "\n", "b", "\n", "\n", "TS", " ", "b">>),
          PyStr(<<"TS", " ", "a", "\n", "b", " ", "\n", " ", "\n", "b", "\n", "HMS", " ", "a">>),
          PyStr(<<"a", "\n", "b", "\n", "\n", " ", "\n", "a", " ", "TS", "\n", "b">>),
          PyStr(<<"b", "\n", " ", "TS", " ", "a", "\n", " ", "HMS", "\n", "\n", "TS">>),
          PyBytes(<<>>), PyBytes(<<" ", "\n">>), PyBytes(<<"xFF", " ", "a">>),
          PyBytes(<<"TS", " ", "xC3", "xBF", "\n", "\n", "b">>), PyBytes(<<"a", "\n", "xC3">>)}

InitLog ==
    /\ raw \in LogInputs
    /\ events = NotParsed
    /\ ExplainIdle
    /\ ParseIdle
    /\ ReadIdle
    /\ LaterIdle

CallParseLog ==
    /\ ~events.called
    /\ events' = [called |-> TRUE, out |-> parse_log(raw)]
    /\ UNCHANGED <<raw, explainVars, parseVars, readVars, laterVars>>

NextLog == CallParseLog

SpecLog == InitLog /\ [][NextLog]_vars


-----------------------------------------------------------------------------
(* Claims about parse_log, checked under SpecLog *)

LogDone == events.called

\* raw is absent, empty or holds only whitespace
NoLogText(r) == r = PyNone \/ \A i \in 1..Len(LogText(r)) : IsSpace(LogText(r)[i])

IsTrimmedEvent(e) == e # <<>> /\ ~IsSpace(e[1]) /\ ~IsSpace(e[Len(e)])

\* C10: parse_log returns no event exactly when raw is absent, empty or
\* whitespace-only; otherwise it returns at least one event, and every event is
\* a non-empty text without leading or trailing whitespace.
C10_EventsNonEmptyTrimmed ==
    LogDone =>
        /\ (events.out = <<>>) <=> NoLogText(raw)
        /\ \A i \in 1..Len(events.out) : IsTrimmedEvent(events.out[i])

\* The per-line tier: three lines, none with a timestamp, one blank-padded
C10_Witness ==
    /\ LogDone
    /\ raw = PyStr(<<" ", "b", "\t", "\n", "&", "\n", "X50", "TS">>)
    /\ events.out = << <<"b">>, <<"&">>, <<"X50", "TS">> >>


\* The text the cascade works on: raw decoded and trimmed
Trimmed == Strip(LogText(raw))

\* What each strategy yields for the trimmed text; XML extraction runs only
\* when the text holds an Event/EventRecord tag or starts with a declaration
XmlTier       == IF is_xml_like(Trimmed) THEN extract_events_from_xml(Trimmed) ELSE <<>>
TimestampTier == split_by_timestamp(Splitlines(Trimmed))
BlankLineTier == split_by_blank_lines(Trimmed)
PerLineTier   == simple_lines(Splitlines(Trimmed))

\* a "\n", optional whitespace and another "\n" somewhere in the text
HasBlankLineSeparation(text) ==
    \E i \in 1..Len(text) : \E j \in (i + 1)..Len(text) :
        /\ text[i] = "\n" /\ text[j] = "\n"
        /\ \A k \in (i + 1)..(j - 1) : IsSpace(text[k])

\* C11: the result of parse_log is the output of the first of XML extraction,
\* timestamp grouping, blank-line split and per-line fallback that meets its
\* threshold (1, 2, 2 and 1 events); some threshold is always met; and a text
\* with no XML trigger, fewer than two timestamp groups and no blank-line
\* separation yields its non-blank lines, trimmed, one event each.
C11_FirstTierThatMeetsThreshold ==
    (LogDone /\ ~NoLogText(raw)) =>
        /\ Len(PerLineTier) >= 1
        /\ events.out = IF Len(XmlTier) >= 1 THEN XmlTier
                         ELSE IF Len(TimestampTier) >= 2 THEN TimestampTier
                         ELSE IF Len(BlankLineTier) >= 2 THEN BlankLineTier
                         ELSE PerLineTier
        /\ (~is_xml_like(Trimmed) /\ Len(TimestampTier) < 2
              /\ ~HasBlankLineSeparation(Trimmed))
            => /\ events.out = PerLineTier
               /\ Len(events.out) = Cardinality({i \in 1..Len(Splitlines(Trimmed)) :
                                                   ~IsBlank(Splitlines(Trimmed)[i])})

\* Timestamp grouping and blank-line split both meet their threshold and differ:
\* the timestamp groups are returned
C11_Witness ==
    /\ LogDone /\ ~NoLogText(raw)
    /\ XmlTier = <<>>
    /\ Len(TimestampTier) >= 2 /\ Len(BlankLineTier) >= 2
    /\ TimestampTier # BlankLineTier
    /\ events.out = TimestampTier


\* The text is blocks and nothing else: outside every element there is only
\* whitespace (and a declaration at the very start), and each outermost
\* element is an Event or an EventRecord
RECURSIVE OnlyBlocksFrom(_, _, _)
OnlyBlocksFrom(s, i, depth) ==
    IF i > Len(s) THEN TRUE
    ELSE IF s[i] \in OpenTags
         THEN (depth > 0 \/ s[i] \in {"<Event>", "<EventRecord>"})
              /\ OnlyBlocksFrom(s, i + 1, depth + 1)
    ELSE IF s[i] \in CloseTags THEN depth > 0 /\ OnlyBlocksFrom(s, i + 1, depth - 1)
    ELSE (depth > 0 \/ IsSpace(s[i]) \/ (s[i] = XmlDecl /\ i = 1))
         /\ OnlyBlocksFrom(s, i + 1, depth)

\* the number of Event and EventRecord elements of the text
NumEventElements(s) ==
    Cardinality({i \in 1..Len(s) : s[i] \in {"<Event>", "<EventRecord>"}})

MadeOfWellFormedBlocks(s) ==
    /\ ParsesAsXml(s)
    /\ OnlyBlocksFrom(s, 1, 0)
    /\ NumEventElements(s) >= 1

HasTag(e) == \E i \in 1..Len(e) : IsTag(e[i])

\* C12: for a text made of n >= 1 well-formed Event or EventRecord blocks, XML
\* extraction emits n events, one per element, and no event holds a tag.
C12_OneEventPerElement ==
    (LogDone /\ raw.t = "str" /\ MadeOfWellFormedBlocks(Trimmed)) =>
        /\ Len(extract_events_from_xml(Trimmed)) = NumEventElements(Trimmed)
        /\ events.out = extract_events_from_xml(Trimmed)
        /\ \A i \in 1..Len(events.out) : ~HasTag(events.out[i])


\* The lines of the trimmed text, and those that are anchors: a timestamp lies
\* in their first 50 characters
InputLines  == Splitlines(Trimmed)
AnchorLines == {i \in 1..Len(InputLines) : HasTimestamp(InputLines[i])}

\* non-blank text before the first anchor line (or no anchor line at all)
TextBeforeFirstAnchor ==
    \E i \in 1..Len(InputLines) :
        ~IsBlank(InputLines[i]) /\ \A j \in AnchorLines : i < j

\* the lines of all the events, one after the other
RECURSIVE LinesOfEvents(_)
LinesOfEvents(evs) ==
    IF evs = <<>> THEN <<>> ELSE Splitlines(Head(evs)) \o LinesOfEvents(Tail(evs))

BlankInsideEvent ==
    {j \in 1..Len(InputLines) :
        /\ IsBlank(InputLines[j])
        /\ \E k \in (j + 1)..Len(InputLines) :
              /\ ~IsBlank(InputLines[k]) /\ ~HasTimestamp(InputLines[k])
              /\ \A q \in (j + 1)..(k - 1) : IsBlank(InputLines[q])}

\* C14: when parse_log returns the timestamp groups, every blank line that lies
\* between two lines of the same event is still a blank line of the returned
\* event.
C14_InteriorBlankLinesKept ==
    (LogDone /\ ~NoLogText(raw) /\ XmlTier = <<>> /\ Len(TimestampTier) >= 2) =>
        LET all == LinesOfEvents(events.out)
        IN  Cardinality({k \in 1..Len(all) : IsBlank(all[k])})
              = Cardinality(BlankInsideEvent)


\* The events of the Event and EventRecord elements below the root, ordered by
\* the position of their start tags
RECURSIVE ElementEventsInOrder(_, _, _)
ElementEventsInOrder(s, i, root) ==
    IF i > Len(s) THEN <<>>
    ELSE IF s[i] \in {"<Event>", "<EventRecord>"} /\ i # root /\ ElementEvent(s, i) # <<>>
         THEN <<ElementEvent(s, i)>> \o ElementEventsInOrder(s, i + 1, root)
    ELSE ElementEventsInOrder(s, i + 1, root)

\* the characters of the events, one event after the other, whitespace and
\* tags left out
RECURSIVE InkOf(_)
InkOf(s) ==
    IF s = <<>> THEN <<>>
    ELSE (IF IsSpace(Head(s)) \/ IsTag(Head(s)) THEN <<>> ELSE <<Head(s)>>) \o InkOf(Tail(s))

RECURSIVE InkOfEvents(_)
InkOfEvents(evs) ==
    IF evs = <<>> THEN <<>> ELSE InkOf(Head(evs)) \o InkOfEvents(Tail(evs))

\* a is b with some elements left out
RECURSIVE IsSubsequence(_, _)
IsSubsequence(a, b) ==
    IF a = <<>> THEN TRUE
    ELSE IF b = <<>> THEN FALSE
    ELSE IF Head(a) = Head(b) THEN IsSubsequence(Tail(a), Tail(b))
    ELSE IsSubsequence(a, Tail(b))

\* C15: the events are in document order under every tier.  For parsed XML
\* the events are those of the elements in the order of their start tags,
\* Event and EventRecord mixed; for a text segmented by lines the characters
\* of the events, read event after event, come in the order of the text.
C15_DocumentOrder ==
    (LogDone /\ ~NoLogText(raw)) =>
        IF XmlTier # <<>> /\ ParsesAsXml(Trimmed)
        THEN events.out = ElementEventsInOrder(Trimmed, 1,
                              IF StartsWithDecl(Trimmed) THEN FirstOpen(Trimmed, 1) ELSE 0)
        ELSE IF XmlTier # <<>>
        THEN IsSubsequence(InkOfEvents(events.out), InkOf(Trimmed))
        ELSE InkOfEvents(events.out) = InkOf(Trimmed)


-----------------------------------------------------------------------------
(* read_windows_event_log, win_event_reader.py.  A record of the native      *)
(* channel is [id, ok]: its position in the channel, most recent first, and  *)
(* whether _format_win32_event succeeds on it.  A block of the export tool's *)
(* output is the sequence of its non-blank lines, a line being [key, val]:   *)
(* the recognised prefix ("date", "provider", "event id", "level",           *)
(* "message", or "other" for a free line) and the text after the colon.      *)

MaxRecords == 2
MaxBatch   == 3
MaxBlocks  == 2

\* Faulty variant: every platform is taken for Windows
IsWindows_Always(p) == TRUE

\* lines 37, 176 and 215: platform.system().lower() == "windows"
IsWindows(p) == p = "Windows"

Platforms == {"Windows", "Linux"}
Channels  == {"System", "Security"}

\* _format_win32_event, lines 47-73: the summary of a record
format_win32_event(rec) == [via |-> "pywin32", id |-> rec.id]

\* the records ReadEventLog delivers after `from` records, given which of
\* them can be formatted
Batch(from, flags) == [i \in 1..Len(flags) |-> [id |-> from + i, ok |-> flags[i]]]

RECURSIVE FlagSeqsUpTo(_)
FlagSeqsUpTo(n) ==
    IF n = 0 THEN {<<>>}
    ELSE LET shorter == FlagSeqsUpTo(n - 1)
         IN  shorter \cup {Append(f, b) : f \in shorter, b \in BOOLEAN}

Batches == FlagSeqsUpTo(MaxBatch) \ {<<>>}

\* Faulty variant: the limit is only looked at between batches
RECURSIVE ProcessBatch_WholeBatch(_, _, _, _)
ProcessBatch_WholeBatch(batch, tot, evs, max) ==
    IF batch = <<>> THEN [total |-> tot, events |-> evs]
    ELSE ProcessBatch_WholeBatch(Tail(batch), tot + 1,
             IF Head(batch).ok THEN Append(evs, format_win32_event(Head(batch))) ELSE evs,
             max)

\* Faulty variant: a record that cannot be formatted ends the batch
RECURSIVE ProcessBatch_StopsAtFailure(_, _, _, _)
ProcessBatch_StopsAtFailure(batch, tot, evs, max) ==
    IF batch = <<>> THEN [total |-> tot, events |-> evs]
    ELSE IF ~Head(batch).ok THEN [total |-> tot + 1, events |-> evs]
    ELSE IF tot + 1 >= max
         THEN [total |-> tot + 1, events |-> Append(evs, format_win32_event(Head(batch)))]
         ELSE ProcessBatch_StopsAtFailure(Tail(batch), tot + 1,
                                          Append(evs, format_win32_event(Head(batch))), max)

\* lines 100-107: the for loop over one batch
RECURSIVE ProcessBatch(_, _, _, _)
ProcessBatch(batch, tot, evs, max) ==
    IF batch = <<>> THEN [total |-> tot, events |-> evs]
    ELSE LET evs2 == IF Head(batch).ok
                     THEN Append(evs, format_win32_event(Head(batch)))
                     ELSE evs
         IN  IF tot + 1 >= max
             THEN [total |-> tot + 1, events |-> evs2]
             ELSE ProcessBatch(Tail(batch), tot + 1, evs2, max)

\* lines 134-157: the fields collected from the lines of a block
RECURSIVE CollectFields(_, _)
CollectFields(lines, st) ==
    IF lines = <<>> THEN st
    ELSE LET ln == Head(lines)
         IN  CollectFields(Tail(lines),
               CASE ln.key = "date"     -> [st EXCEPT !.date = ln.val]
                 [] ln.key = "provider" -> [st EXCEPT !.provider = ln.val]
                 [] ln.key = "event id" -> [st EXCEPT !.event_id = ln.val]
                 [] ln.key = "level"    -> [st EXCEPT !.level = ln.val]
                 [] ln.key = "message"  ->
                      (IF ln.val # "" THEN [st EXCEPT !.message = Append(@, ln.val)] ELSE st)
                 [] OTHER -> [st EXCEPT !.message = Append(@, ln.val)])

NoFields == [date |-> "", provider |-> "", event_id |-> "", level |-> "", message |-> <<>>]

\* lines 164-166: the non-empty parts, in the order date, provider, ID, Level,
\* message; no part at all gives None, here <<>>
parse_wevtutil_output_block(block) ==
    LET st == CollectFields(block, NoFields)
    IN  (IF st.date # "" THEN <<[f |-> "date", v |-> st.date]>> ELSE <<>>)
        \o (IF st.provider # "" THEN <<[f |-> "provider", v |-> st.provider]>> ELSE <<>>)
        \o (IF st.event_id # "" THEN <<[f |-> "ID:", v |-> st.event_id]>> ELSE <<>>)
        \o (IF st.level # "" THEN <<[f |-> "Level:", v |-> st.level]>> ELSE <<>>)
        \o (IF st.message # <<>> THEN <<[f |-> "message", v |-> st.message]>> ELSE <<>>)

\* Faulty variant: every block of the output is parsed
FirstBlocks_All(blocks, max) == blocks

\* blocks[:max_records], line 193, for max_records >= 0
FirstBlocks(blocks, max) == SubSeq(blocks, 1, IF max < Len(blocks) THEN max ELSE Len(blocks))

\* lines 193-196: the summaries of the blocks that have one
RECURSIVE ParsedBlocks(_)
ParsedBlocks(blocks) ==
    IF blocks = <<>> THEN <<>>
    ELSE (IF parse_wevtutil_output_block(Head(blocks)) # <<>>
          THEN <<[via |-> "wevtutil", parts |-> parse_wevtutil_output_block(Head(blocks))]>>
          ELSE <<>>)
         \o ParsedBlocks(Tail(blocks))


\* The blocks the export tool may print
BlockPool ==
    { << [key |-> "date", val |-> "d"], [key |-> "event id", val |-> "7"],
         [key |-> "message", val |-> ""], [key |-> "other", val |-> "x"] >>,
      << [key |-> "date", val |-> ""] >>,
      << [key |-> "other", val |-> "x"] >> }

RECURSIVE BlockSeqsUpTo(_)
BlockSeqsUpTo(n) ==
    IF n = 0 THEN {<<>>}
    ELSE LET shorter == BlockSeqsUpTo(n - 1)
         IN  shorter \cup {Append(bs, b) : bs \in shorter, b \in BlockPool}

\* What the tool wrote to a stream: nothing at all, or text that splits into
\* the given blocks (none when the text is blank)
NoOutput == [empty |-> TRUE, blocks |-> <<>>]
Streams  == {NoOutput} \cup {[empty |-> FALSE, blocks |-> bs] : bs \in BlockSeqsUpTo(MaxBlocks)}

\* stderr is looked at only when stdout is empty
StderrsFor(stdout) ==
    IF stdout.empty THEN Streams
    ELSE {NoOutput, [empty |-> FALSE, blocks |-> <<CHOOSE b \in BlockPool : Len(b) = 4>>]}

ReadRunning      == [kind |-> "running", events |-> <<>>]
ReadReturned(es) == [kind |-> "returned", events |-> es]

SysCall(name, how, data) == [call |-> name, how |-> how, data |-> data]

InitRead ==
    /\ platform_system \in Platforms
    /\ win32_available \in (IF IsWindows(platform_system) THEN BOOLEAN ELSE {FALSE})
    /\ log_type \in Channels
    /\ max_records \in 0..MaxRecords
    /\ rpc = "call" /\ hand = "none" /\ total = 0
    /\ native_events = <<>> /\ syscalls = <<>> /\ result = ReadRunning
    /\ ExplainIdle /\ ParseIdle /\ LogIdle /\ LaterIdle

\* lines 215-217
ReadNotWindows ==
    /\ rpc = "call" /\ ~IsWindows(platform_system)
    /\ result' = ReadReturned(<<>>)
    /\ rpc' = "done"
    /\ UNCHANGED <<platform_system, win32_available, log_type, max_records, hand,
                   total, native_events, syscalls>>

\* lines 220-222: pywin32 is there, _read_with_pywin32 is called
ReadPrefersNative ==
    /\ rpc = "call" /\ IsWindows(platform_system) /\ win32_available
    /\ rpc' = "native"
    /\ UNCHANGED <<platform_system, win32_available, log_type, max_records, hand,
                   total, native_events, syscalls, result>>

\* lines 220 and 231: without pywin32 the export tool is used at once
ReadWithoutNative ==
    /\ rpc = "call" /\ IsWindows(platform_system) /\ ~win32_available
    /\ rpc' = "wevtutil"
    /\ UNCHANGED <<platform_system, win32_available, log_type, max_records, hand,
                   total, native_events, syscalls, result>>

\* lines 84-91: OpenEventLog returns a handle
NativeOpenSucceeds ==
    /\ rpc = "native"
    /\ syscalls' = Append(syscalls, SysCall("OpenEventLog", "ok", log_type))
    /\ hand' = "open" /\ total' = 0 /\ native_events' = <<>>
    /\ rpc' = "native_loop"
    /\ UNCHANGED <<platform_system, win32_available, log_type, max_records, result>>

\* lines 84-88: OpenEventLog raises, the empty list is returned
NativeOpenFails ==
    /\ rpc = "native"
    /\ syscalls' = Append(syscalls, SysCall("OpenEventLog", "raises", log_type))
    /\ native_events' = <<>>
    /\ rpc' = "native_return"
    /\ UNCHANGED <<platform_system, win32_available, log_type, max_records, hand,
                   total, result>>

\* lines 93-107: one iteration of the while loop on a batch of records
NativeReadBatch ==
    /\ rpc = "native_loop" /\ total < max_records
    /\ \E flags \in Batches :
          LET r == ProcessBatch(Batch(total, flags), total, native_events, max_records)
          IN  /\ syscalls' = Append(syscalls, SysCall("ReadEventLog", "ok", flags))
              /\ total' = r.total
              /\ native_events' = r.events
    /\ UNCHANGED <<platform_system, win32_available, log_type, max_records, rpc, hand,
                   result>>

\* lines 95-99: the channel is exhausted
NativeReadEmpty ==
    /\ rpc = "native_loop" /\ total < max_records
    /\ syscalls' = Append(syscalls, SysCall("ReadEventLog", "ok", <<>>))
    /\ rpc' = "native_close"
    /\ UNCHANGED <<platform_system, win32_available, log_type, max_records, hand,
                   total, native_events, result>>

\* Faulty variant: a failed read leaves the function without the finally clause
NativeReadRaises_NoClose ==
    /\ rpc = "native_loop" /\ total < max_records
    /\ syscalls' = Append(syscalls, SysCall("ReadEventLog", "raises", <<>>))
    /\ rpc' = "native_return"
    /\ UNCHANGED <<platform_system, win32_available, log_type, max_records, hand,
                   total, native_events, result>>

\* lines 94-97: ReadEventLog raises
NativeReadRaises ==
    /\ rpc = "native_loop" /\ total < max_records
    /\ syscalls' = Append(syscalls, SysCall("ReadEventLog", "raises", <<>>))
    /\ rpc' = "native_close"
    /\ UNCHANGED <<platform_system, win32_available, log_type, max_records, hand,
                   total, native_events, result>>

\* lines 100-109: an exception other than a formatting failure while a batch is
\* handled, after k of its records
NativeLoopRaises ==
    /\ rpc = "native_loop" /\ total < max_records
    /\ \E flags \in Batches : \E k \in 0..(Len(flags) - 1) :
          LET r == ProcessBatch(SubSeq(Batch(total, flags), 1, k), total, native_events,
                                max_records)
          IN  /\ r.total < max_records
              /\ syscalls' = Append(syscalls, SysCall("ReadEventLog", "ok", flags))
              /\ total' = r.total
              /\ native_events' = r.events
    /\ rpc' = "native_close"
    /\ UNCHANGED <<platform_system, win32_available, log_type, max_records, hand, result>>

\* line 93: the limit is reached
NativeLimitReached ==
    /\ rpc = "native_loop" /\ total >= max_records
    /\ rpc' = "native_close"
    /\ UNCHANGED <<platform_system, win32_available, log_type, max_records, hand,
                   total, native_events, syscalls, result>>


\* lines 110-116: the finally clause; an exception of CloseEventLog is dropped
NativeClose ==
    /\ rpc = "native_close"
    /\ \E ok \in BOOLEAN :
          /\ syscalls' = Append(syscalls,
                                SysCall("CloseEventLog", IF ok THEN "ok" ELSE "raises", <<>>))
          /\ hand' = IF ok THEN "closed" ELSE hand
    /\ rpc' = "native_return"
    /\ UNCHANGED <<platform_system, win32_available, log_type, max_records, total,
                   native_events, result>>

\* Faulty variant: the export tool is run whatever the native read returned
FallsBackToWevtutil_Always ==
    /\ rpc = "native_return"
    /\ rpc' = "wevtutil"
    /\ UNCHANGED <<platform_system, win32_available, log_type, max_records, hand,
                   total, native_events, syscalls, result>>

\* lines 223-224: the native read gave summaries, they are returned
ReturnsNative ==
    /\ rpc = "native_return" /\ native_events # <<>>
    /\ result' = ReadReturned(native_events)
    /\ rpc' = "done"
    /\ UNCHANGED <<platform_system, win32_available, log_type, max_records, hand,
                   total, native_events, syscalls>>

\* lines 225-231: it gave none
FallsBackToWevtutil ==
    /\ rpc = "native_return" /\ native_events = <<>>
    /\ rpc' = "wevtutil"
    /\ UNCHANGED <<platform_system, win32_available, log_type, max_records, hand,
                   total, native_events, syscalls, result>>

\* How subprocess.run ends: with the two streams, by a timeout, or by another
\* exception
ProcOutcomes ==
    {[kind |-> "completed", stdout |-> o, stderr |-> e] : o \in Streams, e \in Streams}
    \cup {[kind |-> k, stdout |-> NoOutput, stderr |-> NoOutput] : k \in {"timeout", "error"}}

\* Faulty variant: whatever is on stderr is parsed first
WevtutilEvents_StderrFirst(p, max) ==
    LET out == IF ~p.stderr.empty THEN p.stderr ELSE p.stdout
    IN  IF out.empty THEN <<>> ELSE ParsedBlocks(FirstBlocks(out.blocks, max))

\* lines 183-196: what is made of the output of a completed run
WevtutilEvents(p, max) ==
    LET out == IF ~p.stdout.empty THEN p.stdout ELSE p.stderr
    IN  IF out.empty THEN <<>> ELSE ParsedBlocks(FirstBlocks(out.blocks, max))

\* Faulty variant: a timeout of the export tool reaches the caller
ReadWithWevtutil_TimeoutEscapes ==
    /\ rpc = "wevtutil"
    /\ \E p \in ProcOutcomes :
          /\ p.kind = "completed" => p.stderr \in StderrsFor(p.stdout)
          /\ syscalls' = Append(syscalls, SysCall("subprocess.run", p.kind, p))
          /\ result' = IF p.kind = "completed"
                       THEN ReadReturned(WevtutilEvents(p, max_records))
                       ELSE IF p.kind = "timeout"
                       THEN [kind |-> "raised", events |-> <<>>]
                       ELSE ReadReturned(<<>>)
    /\ rpc' = "done"
    /\ UNCHANGED <<platform_system, win32_available, log_type, max_records, hand,
                   total, native_events>>

\* _read_with_wevtutil, lines 169-201, and the return of lines 231-234
ReadWithWevtutil ==
    /\ rpc = "wevtutil"
    /\ IF ~IsWindows(platform_system)
       THEN /\ result' = ReadReturned(<<>>)
            /\ UNCHANGED syscalls
       ELSE \E p \in ProcOutcomes :
               /\ p.kind = "completed" => p.stderr \in StderrsFor(p.stdout)
               /\ syscalls' = Append(syscalls, SysCall("subprocess.run", p.kind, p))
               /\ result' = IF p.kind = "completed"
                            THEN ReadReturned(WevtutilEvents(p, max_records))
                            ELSE ReadReturned(<<>>)
    /\ rpc' = "done"
    /\ UNCHANGED <<platform_system, win32_available, log_type, max_records, hand,
                   total, native_events>>

otherThanRead == <<explainVars, parseVars, logVars, laterVars>>

NextRead ==
    \/ ReadNotWindows /\ UNCHANGED otherThanRead
    \/ ReadPrefersNative /\ UNCHANGED otherThanRead
    \/ ReadWithoutNative /\ UNCHANGED otherThanRead
    \/ NativeOpenSucceeds /\ UNCHANGED otherThanRead
    \/ NativeOpenFails /\ UNCHANGED otherThanRead
    \/ NativeReadBatch /\ UNCHANGED otherThanRead
    \/ NativeReadEmpty /\ UNCHANGED otherThanRead
    \/ NativeReadRaises /\ UNCHANGED otherThanRead
    \/ NativeLoopRaises /\ UNCHANGED otherThanRead
    \/ NativeLimitReached /\ UNCHANGED otherThanRead
    \/ NativeClose /\ UNCHANGED otherThanRead
    \/ ReturnsNative /\ UNCHANGED otherThanRead
    \/ FallsBackToWevtutil /\ UNCHANGED otherThanRead
    \/ ReadWithWevtutil /\ UNCHANGED otherThanRead

SpecRead == InitRead /\ [][NextRead]_vars


-----------------------------------------------------------------------------
(* Claims about read_windows_event_log, checked under SpecRead *)

ReadDone == rpc = "done"

\* the positions in syscalls of the calls of the given name
CallsOf(name) == {i \in 1..Len(syscalls) : syscalls[i].call = name}

NativeCalls == CallsOf("OpenEventLog") \cup CallsOf("ReadEventLog") \cup CallsOf("CloseEventLog")

\* C16: off Windows the read returns the empty sequence for every channel and
\* limit; the native channel is never opened and the export tool never started.
C16_NoOpOffWindows ==
    platform_system # "Windows" =>
        /\ syscalls = <<>>
        /\ hand = "none"
        /\ result \in {ReadRunning, ReadReturned(<<>>)}
        /\ ReadDone => result = ReadReturned(<<>>)
        /\ ~ReadDone => ENABLED NextRead

C16_Witness ==
    /\ ReadDone
    /\ platform_system = "Linux"
    /\ log_type = "Security"
    /\ max_records > 0
    /\ result = ReadReturned(<<>>)

\* the export tool was run and did not complete
ExportFailed ==
    \E i \in CallsOf("subprocess.run") : syscalls[i].how \in {"timeout", "error"}

C18_NativeBeforeExport ==
    /\ Cardinality(CallsOf("subprocess.run")) <= 1
    /\ \A i \in NativeCalls : \A j \in CallsOf("subprocess.run") : i < j
    /\ CallsOf("subprocess.run") # {} =>
          /\ ~win32_available \/ native_events = <<>>
          /\ win32_available => CallsOf("OpenEventLog") # {}
    /\ (ReadDone /\ native_events # <<>>) =>
          /\ result = ReadReturned(native_events)
          /\ CallsOf("subprocess.run") = {}
    /\ (ReadDone /\ win32_available) => CallsOf("OpenEventLog") # {}

\* The native read delivered records, none of which could be formatted: the
\* export tool is run after it and its summaries are returned
C18_Witness ==
    /\ ReadDone
    /\ \E i \in CallsOf("ReadEventLog") : syscalls[i].data # <<>>
    /\ native_events = <<>>
    /\ CallsOf("subprocess.run") # {}
    /\ result.events # <<>>

\* _read_with_pywin32 has returned
NativeReturned == rpc \in {"native_return", "wevtutil", "done"} /\ win32_available

OpenedOk == \E i \in CallsOf("OpenEventLog") : syscalls[i].how = "ok"

\* C19: a handle that was opened is closed exactly once, after the last read
\* and before _read_with_pywin32 returns, on every way out; no close is
\* attempted when the open failed or before the function is left.
C19_HandleClosedOnce ==
    /\ Cardinality(CallsOf("CloseEventLog")) <= 1
    /\ Cardinality(CallsOf("OpenEventLog")) <= 1
    /\ CallsOf("CloseEventLog") # {} => OpenedOk
    /\ \A i \in CallsOf("CloseEventLog") :
          /\ \A j \in CallsOf("OpenEventLog") \cup CallsOf("ReadEventLog") : j < i
          /\ syscalls[i].how = "ok" => hand = "closed"
    /\ NativeReturned => (OpenedOk <=> Cardinality(CallsOf("CloseEventLog")) = 1)
    /\ rpc = "native_loop" => (hand = "open" /\ CallsOf("CloseEventLog") = {})

\* A batch was read, the next read failed: the handle is closed once
C19_Witness ==
    /\ NativeReturned
    /\ \E i \in CallsOf("ReadEventLog") : syscalls[i].how = "ok" /\ syscalls[i].data # <<>>
    /\ \E i \in CallsOf("ReadEventLog") : syscalls[i].how = "raises"
    /\ native_events # <<>>
    /\ Cardinality(CallsOf("CloseEventLog")) = 1
    /\ hand = "closed"

\* C20: for a limit max_records >= 0 the read returns at most max_records
\* summaries, from either strategy.
C20_AtMostMaxRecords ==
    /\ Len(native_events) <= max_records
    /\ total <= max_records
    /\ ReadDone => Len(result.events) <= max_records

\* One native batch holds more records than the limit, and the export tool
\* prints more blocks than the limit: in both cases max_records summaries
C20_Witness ==
    /\ ReadDone
    /\ max_records >= 1
    /\ Len(result.events) = max_records
    /\ \/ \E i \in CallsOf("ReadEventLog") : Len(syscalls[i].data) > max_records
       \/ \E i \in CallsOf("subprocess.run") :
             Len(syscalls[i].data.stdout.blocks) > max_records


\* the ok-flags of the records ReadEventLog delivered, in the order of reading
RECURSIVE DeliveredFrom(_)
DeliveredFrom(i) ==
    IF i > Len(syscalls) THEN <<>>
    ELSE (IF syscalls[i].call = "ReadEventLog" /\ syscalls[i].how = "ok"
          THEN syscalls[i].data ELSE <<>>) \o DeliveredFrom(i + 1)

Delivered == Batch(0, DeliveredFrom(1))

\* the records the for loop has taken up
Handled == SubSeq(Delivered, 1, total)

SummariesOf(recs) == [i \in 1..Len(recs) |-> format_win32_event(recs[i])]

\* C24: in the native strategy a record whose formatting fails is skipped and
\* the read goes on: while the loop runs every delivered record has been taken
\* up (as far as the limit allows), and the summaries are those of the records
\* that could be formatted, in the order of reading.
C24_FormatFailureSkipped ==
    /\ total <= Len(Delivered)
    /\ native_events = SummariesOf(SelectSeq(Handled, LAMBDA r : r.ok))
    /\ rpc = "native_loop" =>
          total = (IF Len(Delivered) < max_records THEN Len(Delivered) ELSE max_records)

\* a record that cannot be formatted precedes, in its batch, one that is
\* formatted and returned
C24_Witness ==
    /\ ReadDone /\ NativeReturned
    /\ \E i \in CallsOf("ReadEventLog") :
          /\ syscalls[i].how = "ok"
          /\ Len(syscalls[i].data) >= 2
          /\ ~syscalls[i].data[1] /\ syscalls[i].data[2]
    /\ result.events = native_events
    /\ Len(native_events) >= 1
    /\ \E j \in 1..Len(Handled) : ~Handled[j].ok /\ j < native_events[1].id

\* the run of the export tool, when there was one
ToolRuns == CallsOf("subprocess.run")

SummariesFrom(stream) == ParsedBlocks(FirstBlocks(stream.blocks, max_records))

\* C25: the export-tool strategy parses stdout; it parses stderr only when
\* stdout is empty; a timeout, a failure to run and a run without output on
\* either stream all give the empty sequence, and nothing is raised.
C25_StdoutThenStderr ==
    ReadDone =>
        \A i \in ToolRuns :
            LET p == syscalls[i].data
            IN  /\ result.kind = "returned"
                /\ syscalls[i].how \in {"timeout", "error"} => result.events = <<>>
                /\ syscalls[i].how = "completed" =>
                      /\ ~p.stdout.empty => result.events = SummariesFrom(p.stdout)
                      /\ p.stdout.empty /\ ~p.stderr.empty =>
                            result.events = SummariesFrom(p.stderr)
                      /\ p.stdout.empty /\ p.stderr.empty => result.events = <<>>

\* stdout holds a block and so does stderr: the summaries are those of stdout
C25_Witness ==
    /\ ReadDone
    /\ \E i \in ToolRuns :
          /\ syscalls[i].how = "completed"
          /\ ~syscalls[i].data.stdout.empty /\ ~syscalls[i].data.stderr.empty
          /\ SummariesFrom(syscalls[i].data.stdout) # SummariesFrom(syscalls[i].data.stderr)
          /\ result.events = SummariesFrom(syscalls[i].data.stdout)
          /\ result.events # <<>>

\* the fields of a native summary, lines 12-13 and 73
SummaryShape == <<"date", "provider", "ID:", "Level:", "message">>

FieldsOf(summary) == [i \in 1..Len(summary.parts) |-> summary.parts[i].f]

\* C26: every summary of the export-tool strategy has the five fields
\* timestamp, source, ID, level and message, in this order and none omitted,
\* so that its first field is the timestamp.
C26_FixedShape ==
    ReadDone =>
        \A i \in 1..Len(result.events) :
            result.events[i].via = "wevtutil" => FieldsOf(result.events[i]) = SummaryShape

-----------------------------------------------------------------------------
(* GeminiClient.chat, api_client_gemini.py:41-90.  http is what the request  *)
(* meets: requests.post raises (net = "raises"), or it returns a response    *)
(* with a status code and a body that is JSON (json = TRUE, value the parsed *)
(* value) or is not.                                                         *)

\* line 55: a status from 400 on is an error
ErrorStatusFrom == 400

K_role == <<"r","o","l","e">>

\* x[k] for a key that is text (k.t = "str") or the index 0 (k.t = "int"):
\* ok says whether Python returns a value rather than raising KeyError,
\* IndexError or TypeError
Subscript(x, k) ==
    IF x.t = "dict" /\ k.t = "str" /\ HasKey(x, k.v)
    THEN [ok |-> TRUE, v |-> Get(x, k.v)]
    ELSE IF x.t = "list" /\ k.t = "int" /\ k.v + 1 <= Len(x.v)
    THEN [ok |-> TRUE, v |-> x.v[k.v + 1]]
    ELSE IF x.t = "str" /\ k.t = "int" /\ k.v + 1 <= Len(x.v)
    THEN [ok |-> TRUE, v |-> PyStr(<<x.v[k.v + 1]>>)]
    ELSE [ok |-> FALSE, v |-> PyNone]

\* line 88: data["candidates"][0]["content"]["parts"][0]["text"]
TextPath ==
    << PyStr(K_candidates), PyInt(0), PyStr(K_content), PyStr(K_parts), PyInt(0),
       PyStr(K_text) >>

RECURSIVE Walk(_, _)
Walk(x, path) ==
    IF path = <<>> THEN [ok |-> TRUE, v |-> x]
    ELSE LET step == Subscript(x, Head(path))
         IN  IF step.ok THEN Walk(step.v, Tail(path)) ELSE step

\* The JSON values a body may hold, built from the inside out
TextValues == {PyStr(<<"a">>), PyStr(<<>>), PyNone, PyInt(1)}
PartValues ==
    {PyDict(<< <<K_text, t>> >>) : t \in TextValues}
    \cup {PyDict(<<>>), PyStr(<<"a">>), PyNone}
PartsValues ==
    {PyList(<<p>>) : p \in PartValues}
    \cup {PyList(<<>>), PyStr(<<"a", "b">>), PyNone,
          PyList(<<PyDict(<< <<K_text, PyStr(<<"a">>)>> >>), PyDict(<<>>)>>)}
ContentValues ==
    {PyDict(<< <<K_parts, ps>> >>) : ps \in PartsValues}
    \cup {PyDict(<< <<K_role, PyStr(<<"a">>)>>, <<K_parts, ps>> >>) : ps \in PartsValues}
    \cup {PyDict(<<>>), PyStr(<<"a">>), PyNone}
CandidateValues ==
    {PyDict(<< <<K_content, c>> >>) : c \in ContentValues}
    \cup {PyDict(<< <<K_text, PyStr(<<"a">>)>> >>), PyStr(<<"a">>), PyNone}
CandidatesValues ==
    {PyList(<<c>>) : c \in CandidateValues}
    \cup {PyList(<<>>), PyNone, PyStr(<<"a">>),
          PyDict(<< <<K_content, PyDict(<<>>)>> >>)}
JsonBodies ==
    {PyDict(<< <<K_candidates, cs>> >>) : cs \in CandidatesValues}
    \cup {PyDict(<< <<K_reply, PyStr(<<"a">>)>> >>), PyDict(<<>>), PyList(<<>>),
          PyStr(<<"a">>), PyNone, PyInt(1)}

StatusCodes == {200, 201, 204, 302, 399, 400, 401, 404, 429, 500, 503}

NetworkErrors == {"ConnectionError", "Timeout"}

HttpOutcomes ==
    {[net |-> e, status |-> 0, json |-> FALSE, value |-> PyNone] : e \in NetworkErrors}
    \cup {[net |-> "ok", status |-> st, json |-> FALSE, value |-> PyNone] : st \in StatusCodes}
    \cup {[net |-> "ok", status |-> st, json |-> TRUE, value |-> b] :
             st \in StatusCodes, b \in JsonBodies}

ChatRunning     == [kind |-> "running", exc |-> "None", value |-> PyNone]
ChatReturned(v) == [kind |-> "returned", exc |-> "None", value |-> v]
ChatRaised(e)   == [kind |-> "raised", exc |-> e, value |-> PyNone]

otherThanChat == <<explainVars, parseVars, logVars, readVars, pureVars, uiVars>>

InitChat ==
    /\ http \in HttpOutcomes
    /\ cpc = "post"
    /\ chat_out = ChatRunning
    /\ ExplainIdle /\ ParseIdle /\ LogIdle /\ ReadIdle /\ PureIdle /\ UiIdle

\* lines 44-52: requests.post raises, whatever the exception
PostRaises ==
    /\ cpc = "post" /\ http.net # "ok"
    /\ chat_out' = ChatRaised("GeminiAPIError")
    /\ cpc' = "done"
    /\ UNCHANGED http

\* lines 44-49: requests.post returns a response
PostReturns ==
    /\ cpc = "post" /\ http.net = "ok"
    /\ cpc' = "status"
    /\ UNCHANGED <<http, chat_out>>

\* lines 54-58
StatusIsError ==
    /\ cpc = "status" /\ http.status >= ErrorStatusFrom
    /\ chat_out' = ChatRaised("GeminiAPIError")
    /\ cpc' = "done"
    /\ UNCHANGED http

StatusIsFine ==
    /\ cpc = "status" /\ http.status < ErrorStatusFrom
    /\ cpc' = "json"
    /\ UNCHANGED <<http, chat_out>>

\* lines 60-63: response.json() raises
JsonInvalid ==
    /\ cpc = "json" /\ ~http.json
    /\ chat_out' = ChatRaised("GeminiAPIError")
    /\ cpc' = "done"
    /\ UNCHANGED http

\* lines 60-61 and 83
JsonDecoded ==
    /\ cpc = "json" /\ http.json
    /\ cpc' = "extract"
    /\ UNCHANGED <<http, chat_out>>

\* Faulty variant: the lookup is not guarded, its KeyError reaches the caller
ExtractFails_Unguarded ==
    /\ cpc = "extract" /\ ~Walk(http.value, TextPath).ok
    /\ chat_out' = ChatRaised("KeyError")
    /\ cpc' = "done"
    /\ UNCHANGED http

\* lines 85-90: the lookup raises
ExtractFails ==
    /\ cpc = "extract" /\ ~Walk(http.value, TextPath).ok
    /\ chat_out' = ChatRaised("GeminiAPIError")
    /\ cpc' = "done"
    /\ UNCHANGED http

\* lines 85-88: the text is returned
ExtractReturns ==
    /\ cpc = "extract" /\ Walk(http.value, TextPath).ok
    /\ chat_out' = ChatReturned(Walk(http.value, TextPath).v)
    /\ cpc' = "done"
    /\ UNCHANGED http

NextChat ==
    \/ PostRaises /\ UNCHANGED otherThanChat
    \/ PostReturns /\ UNCHANGED otherThanChat
    \/ StatusIsError /\ UNCHANGED otherThanChat
    \/ StatusIsFine /\ UNCHANGED otherThanChat
    \/ JsonInvalid /\ UNCHANGED otherThanChat
    \/ JsonDecoded /\ UNCHANGED otherThanChat
    \/ ExtractFails /\ UNCHANGED otherThanChat
    \/ ExtractReturns /\ UNCHANGED otherThanChat

SpecChat == InitChat /\ [][NextChat]_vars


-----------------------------------------------------------------------------
(* Claims about GeminiClient.chat, checked under SpecChat *)

ChatDone == cpc = "done"

\* the body is an object whose candidates is a non-empty array, whose first
\* element is an object with a content object, whose parts is a non-empty array
\* with an object that has a text member as first element
HasCandidateText(b) ==
    /\ b.t = "dict" /\ HasKey(b, K_candidates)
    /\ LET cs == Get(b, K_candidates)
       IN  /\ cs.t = "list" /\ cs.v # <<>>
           /\ cs.v[1].t = "dict" /\ HasKey(cs.v[1], K_content)
           /\ LET c == Get(cs.v[1], K_content)
              IN  /\ c.t = "dict" /\ HasKey(c, K_parts)
                  /\ LET ps == Get(c, K_parts)
                     IN  /\ ps.t = "list" /\ ps.v # <<>>
                         /\ ps.v[1].t = "dict" /\ HasKey(ps.v[1], K_text)

-----------------------------------------------------------------------------
(* build_explain_prompt (src/api/ai_explainer.py) *)

\* the bound on the length of a related_events list
MaxItems == 4

\* line 55: v[:3]
TopShown == 3

K_related_events == <<"r","e","l","a","t","e","d","_","e","v","e","n","t","s">>
K_source == <<"s","o","u","r","c","e">>

\* str.split("\n"): the lines of a text; one more than its line feeds
RECURSIVE SplitNL(_, _)
SplitNL(s, cur) ==
    IF s = <<>> THEN <<cur>>
    ELSE IF Head(s) = "\n" THEN <<cur>> \o SplitNL(Tail(s), <<>>)
    ELSE SplitNL(Tail(s), Append(cur, Head(s)))

\* lines 37-47: the instructions, the event and a blank line; a literal of
\* the source is one element of the text
PromptHead(event) ==
    << <<"You are an experienced Windows systems analyst. Explain the event below">>,
       <<"in clear, concise language suitable for another analyst. Include:">>,
       <<"- What the event likely means">>,
       <<"- Possible causes">>,
       <<"- Immediate triage steps (what to check first)">>,
       <<"- Indicators of compromise or false positives (if applicable)">>,
       <<"- Short summary (1-2 sentences)">>,
       <<>>,
       <<"Event:">>,
       event,
       <<>> >>

\* line 54: the count line
CountLine(v) == <<"- related_events: ">> \o NatStr(Len(v.v)) \o <<" items (top 3 shown)">>

\* line 56: a numbered item
ItemLine(idx, it) == <<"  ">> \o NatStr(idx) \o <<". ">> \o ToStr(it)

\* every item is shown
ShownItems_All(v) == v.v

\* line 55: v[:3]
ShownItems(v) == SubSeq(v.v, 1, IF Len(v.v) < TopShown THEN Len(v.v) ELSE TopShown)

\* lines 53-58: the lines of one context entry
EntryLines(k, v) ==
    IF k = K_related_events /\ v.t = "list"
    THEN <<CountLine(v)>> \o [i \in 1..Len(ShownItems(v)) |-> ItemLine(i, ShownItems(v)[i])]
    ELSE << <<"- ">> \o k \o <<": ">> \o ToStr(v) >>

RECURSIVE ContextLines(_)
ContextLines(kvs) ==
    IF kvs = <<>> THEN <<>>
    ELSE EntryLines(Head(kvs)[1], Head(kvs)[2]) \o ContextLines(Tail(kvs))

\* lines 36-62
build_explain_prompt(event, context) ==
    Join(<<"\n">>,
         PromptHead(event)
         \o (IF Truthy(context)
             THEN << <<"Context:">> >> \o ContextLines(context.v) \o << <<>> >>
             ELSE <<>>)
         \o << <<"Provide the explanation in sections with headings. Keep it concise.">> >>)

PromptItems == {PyStr(<<"a">>), PyStr(<<"a", "\n", "b">>), PyInt(1)}

RECURSIVE ItemListsUpTo(_)
ItemListsUpTo(n) ==
    IF n = 0 THEN {<<>>}
    ELSE LET shorter == ItemListsUpTo(n - 1)
         IN  shorter \cup {Append(xs, it) : xs \in {s \in shorter : Len(s) = n - 1}, it \in PromptItems}

PromptEvents == {<<"e">>, <<>>, <<"e", "\n", "f">>}

PromptContexts ==
    {PyNone, PyDict(<<>>), PyDict(<< <<K_related_events, PyStr(<<"a">>)>> >>)}
    \cup {PyDict(<< <<K_related_events, PyList(xs)>> >>) : xs \in ItemListsUpTo(MaxItems)}
    \cup {PyDict(<< <<K_source, PyStr(<<"s">>)>>, <<K_related_events, PyList(xs)>> >>)
             : xs \in ItemListsUpTo(MaxItems)}
    \cup {PyDict(<< <<K_related_events, PyList(xs)>>, <<K_source, PyInt(1)>> >>)
             : xs \in ItemListsUpTo(MaxItems)}

otherThanPure == <<explainVars, parseVars, logVars, readVars, chatVars, uiVars>>
OthersIdle == ExplainIdle /\ ParseIdle /\ LogIdle /\ ReadIdle /\ ChatIdle /\ UiIdle

InitPrompt ==
    /\ fn = "build_explain_prompt"
    /\ arg \in [event : PromptEvents, context : PromptContexts]
    /\ ret = <<>>
    /\ OthersIdle

CallBuildPrompt ==
    /\ fn = "build_explain_prompt" /\ ret = <<>>
    /\ ret' = <<build_explain_prompt(arg.event, arg.context)>>
    /\ UNCHANGED <<fn, arg, otherThanPure>>

NextPrompt == CallBuildPrompt

SpecPrompt == InitPrompt /\ [][NextPrompt]_vars

-----------------------------------------------------------------------------
(* Claims about build_explain_prompt, checked under SpecPrompt *)

PromptBuilt == fn = "build_explain_prompt" /\ ret # <<>>

HasRelatedList ==
    /\ arg.context.t = "dict"
    /\ HasKey(arg.context, K_related_events)
    /\ Get(arg.context, K_related_events).t = "list"

RelatedList == Get(arg.context, K_related_events).v

\* s holds part as a run of consecutive characters
HoldsText(s, part) ==
    \E i \in 0..(Len(s) - Len(part)) : SubSeq(s, i + 1, i + Len(part)) = part

\* the context with the related_events entry replaced by an entry of one line
RECURSIVE WithPlainEntry(_)
WithPlainEntry(kvs) ==
    IF kvs = <<>> THEN <<>>
    ELSE (IF Head(kvs)[1] = K_related_events
          THEN << <<K_related_events, PyInt(0)>> >> ELSE <<Head(kvs)>>)
         \o WithPlainEntry(Tail(kvs))

NumLines(text) == Len(SplitNL(text, <<>>))

\* the lines of the prompt that are there because of the related_events entry
EntryContribution ==
    NumLines(ret[1])
    - NumLines(build_explain_prompt(arg.event, PyDict(WithPlainEntry(arg.context.v)))) + 1

Min(a, b) == IF a < b THEN a ELSE b

NumShown == Min(Len(RelatedList), TopShown)

\* the text of the entry: the count line, then the first items, numbered
EntryText ==
    Join(<<"\n">>, <<CountLine(PyList(RelatedList))>>
                   \o [i \in 1..NumShown |-> ItemLine(i, RelatedList[i])])

RECURSIVE CountOf(_, _)
CountOf(c, s) ==
    IF s = <<>> THEN 0 ELSE (IF Head(s) = c THEN 1 ELSE 0) + CountOf(c, Tail(s))

RECURSIVE BreaksInShown(_)
BreaksInShown(n) ==
    IF n = 0 THEN 0 ELSE CountOf("\n", ToStr(RelatedList[n])) + BreaksInShown(n - 1)

\* C22 as stated: the event text is in the prompt, and a related_events list
\* of n items gives a count line stating n and min(n, 3) numbered item lines,
\* at most 4 lines of the prompt whatever the list holds
C22_EntryAtMostFourLines ==
    PromptBuilt =>
        /\ HoldsText(ret[1], arg.event)
        /\ HasRelatedList =>
              /\ HoldsText(ret[1], <<"\n">> \o EntryText \o <<"\n">>)
              /\ EntryContribution = 1 + NumShown
              /\ EntryContribution <= 1 + TopShown

\* C22 amended: the count line states n and the first min(n, 3) items follow,
\* numbered and in order; the entry is 1 + min(n, 3) lines of the prompt plus
\* one line for every line feed in the text of a shown item
C22_EntryIsCountLineAndTopItems ==
    PromptBuilt =>
        /\ HoldsText(ret[1], arg.event)
        /\ HasRelatedList =>
              /\ HoldsText(ret[1], <<"\n">> \o EntryText \o <<"\n">>)
              /\ EntryContribution = 1 + NumShown + BreaksInShown(NumShown)
              /\ BreaksInShown(NumShown) = 0 => EntryContribution <= 1 + TopShown

C22_Witness ==
    /\ PromptBuilt /\ HasRelatedList
    /\ Len(RelatedList) > TopShown
    /\ BreaksInShown(NumShown) > 0
    /\ EntryContribution > 1 + TopShown

-----------------------------------------------------------------------------
(* MainWindow._extract_event_timestamp and _try_parse_datetime
   (src/ui/main_window.py)

   An event text is a sequence of pieces separated by single spaces; a piece
   is one of the literal texts below, so that what a pattern matches and what
   strptime accepts can be read off the expression and the format list. *)

\* the bound on the number of pieces of an event text
MaxPieces == 3

\* line 520: event_text[:400]
SnippetWindow == 400

Filler    == "x*400"     \* 400 letters x
FillerCut == "x*"        \* a filler cut short by the window

StampPieces ==
    { "2024-01-25 10:33:22",     \* pattern 1, %Y-%m-%d %H:%M:%S
      "2024-13-45 10:33:22",     \* patterns 1 and 2, no format: month 13
      "1/26/2024 10:33",         \* pattern 3, %m/%d/%Y %H:%M
      "1/40/2024 10:33",         \* pattern 3, no format: day 40
      "Dec 10 16:36:41 2025",    \* pattern 7, %b %d %H:%M:%S %Y
      "10:33:22",                \* pattern 5 at the start only, %H:%M:%S
      "w",
      Filler }

PieceWidth(p) ==
    CASE p = "2024-01-25 10:33:22" -> 19
      [] p = "2024-13-45 10:33:22" -> 19
      [] p = "1/26/2024 10:33" -> 15
      [] p = "1/40/2024 10:33" -> 15
      [] p = "Dec 10 16:36:41 2025" -> 20
      [] p = "10:33:22" -> 8
      [] p = "w" -> 1
      [] p = Filler -> 400

\* None
NoInstant == -1

\* lines 471-513: the instant of a candidate text, numbered in the order of
\* time; a text that no format of the list accepts has none
\*   0  1900-01-01 10:33:22     1  1900-01-01 16:36:41
\*   2  2024-01-25 00:00:00     3  2024-01-25 10:33:00
\*   4  2024-01-25 10:33:22     5  2024-01-26 10:33:00
\*   6  2025-12-10 16:36:41
try_parse_datetime(s) ==
    CASE s = "10:33:22" -> 0                \* %H:%M:%S, the year defaults to 1900
      [] s = "16:36:41" -> 1
      [] s = "2024-01-25" -> 2              \* %Y-%m-%d
      [] s = "2024-01-25 10:33" -> 3        \* %Y-%m-%d %H:%M
      [] s = "2024-01-25 10:33:22" -> 4     \* %Y-%m-%d %H:%M:%S
      [] s = "1/26/2024 10:33" -> 5         \* %m/%d/%Y %H:%M
      [] s = "Dec 10 16:36:41 2025" -> 6    \* %b %d %H:%M:%S %Y
      [] OTHER -> NoInstant

NumPatterns == 8

\* lines 522-534: what pattern n matches inside one piece, "" for no match;
\* pattern 5 is anchored at the start of the snippet
MatchIn(n, piece, atStart) ==
    CASE n = 1 /\ piece \in {"2024-01-25 10:33:22", "2024-13-45 10:33:22"} -> piece
      [] n = 2 /\ piece = "2024-01-25 10:33:22" -> "2024-01-25 10:33"
      [] n = 2 /\ piece = "2024-13-45 10:33:22" -> "2024-13-45 10:33"
      [] n = 3 /\ piece \in {"1/26/2024 10:33", "1/40/2024 10:33"} -> piece
      [] n = 5 /\ piece = "10:33:22" /\ atStart -> piece
      [] n = 7 /\ piece = "Dec 10 16:36:41 2025" -> piece
      [] OTHER -> ""

\* line 543: re.split(r"\s+", ...) of one piece
TokensOf(piece) ==
    CASE piece = "2024-01-25 10:33:22" -> <<"2024-01-25", "10:33:22">>
      [] piece = "2024-13-45 10:33:22" -> <<"2024-13-45", "10:33:22">>
      [] piece = "1/26/2024 10:33" -> <<"1/26/2024", "10:33">>
      [] piece = "1/40/2024 10:33" -> <<"1/40/2024", "10:33">>
      [] piece = "Dec 10 16:36:41 2025" -> <<"Dec", "10", "16:36:41", "2025">>
      [] OTHER -> <<piece>>

\* line 520: the pieces inside the first 400 characters; only a filler is
\* ever cut by the window, and what is left of it is a run of letters
RECURSIVE SnippetFrom(_, _)
SnippetFrom(pieces, room) ==
    IF pieces = <<>> \/ room <= 0 THEN <<>>
    ELSE LET p == Head(pieces)
         IN  IF PieceWidth(p) <= room
             THEN <<p>> \o SnippetFrom(Tail(pieces), room - PieceWidth(p) - 1)
             ELSE CASE p = Filler -> <<FillerCut>>

Snippet(text) == SnippetFrom(text, SnippetWindow)

\* re.search(p, snippet).group(0): the leftmost match, "" for none
RECURSIVE SearchFrom(_, _, _)
SearchFrom(n, snippet, i) ==
    IF i > Len(snippet) THEN ""
    ELSE IF MatchIn(n, snippet[i], i = 1) # "" THEN MatchIn(n, snippet[i], i = 1)
    ELSE SearchFrom(n, snippet, i + 1)

Search(n, snippet) == SearchFrom(n, snippet, 1)

\* the result of the first pattern that matches is returned, parsed or not
RECURSIVE PatternScan_FirstMatchDecides(_, _)
PatternScan_FirstMatchDecides(n, snippet) ==
    IF n > NumPatterns THEN [done |-> FALSE, dt |-> NoInstant]
    ELSE IF Search(n, snippet) # ""
         THEN [done |-> TRUE, dt |-> try_parse_datetime(Search(n, snippet))]
         ELSE PatternScan_FirstMatchDecides(n + 1, snippet)

\* lines 535-541: the patterns in order; a candidate that does not parse
\* lets the loop go on
RECURSIVE PatternScan(_, _)
PatternScan(n, snippet) ==
    IF n > NumPatterns THEN [done |-> FALSE, dt |-> NoInstant]
    ELSE IF Search(n, snippet) # "" /\ try_parse_datetime(Search(n, snippet)) # NoInstant
         THEN [done |-> TRUE, dt |-> try_parse_datetime(Search(n, snippet))]
         ELSE PatternScan(n + 1, snippet)

RECURSIVE AllTokens(_)
AllTokens(snippet) ==
    IF snippet = <<>> THEN <<>> ELSE TokensOf(Head(snippet)) \o AllTokens(Tail(snippet))

\* lines 543-547: the first token that parses
RECURSIVE TokenScan(_)
TokenScan(tokens) ==
    IF tokens = <<>> THEN NoInstant
    ELSE IF try_parse_datetime(Head(tokens)) # NoInstant THEN try_parse_datetime(Head(tokens))
    ELSE TokenScan(Tail(tokens))

\* lines 516-548
extract_event_timestamp(text) ==
    IF text = <<>> THEN NoInstant
    ELSE LET found == PatternScan(1, Snippet(text))
         IN  IF found.done THEN found.dt ELSE TokenScan(AllTokens(Snippet(text)))

RECURSIVE PieceSeqsUpTo(_)
PieceSeqsUpTo(n) ==
    IF n = 0 THEN {<<>>}
    ELSE LET shorter == PieceSeqsUpTo(n - 1)
         IN  shorter \cup {Append(xs, p) : xs \in {s \in shorter : Len(s) = n - 1}, p \in StampPieces}

InitStamp ==
    /\ fn = "extract_event_timestamp"
    /\ arg \in PieceSeqsUpTo(MaxPieces)
    /\ ret = <<>>
    /\ OthersIdle

CallExtractTimestamp ==
    /\ fn = "extract_event_timestamp" /\ ret = <<>>
    /\ ret' = <<extract_event_timestamp(arg)>>
    /\ UNCHANGED <<fn, arg, otherThanPure>>

NextStamp == CallExtractTimestamp

SpecStamp == InitStamp /\ [][NextStamp]_vars

-----------------------------------------------------------------------------
(* Claims about _extract_event_timestamp, checked under SpecStamp *)

StampExtracted == fn = "extract_event_timestamp" /\ ret # <<>>

\* the patterns that match inside the window
Matching == {n \in 1..NumPatterns : Search(n, Snippet(arg)) # ""}

\* the patterns whose match is the text of an instant
Parsing == {n \in Matching : try_parse_datetime(Search(n, Snippet(arg))) # NoInstant}

Lowest(S) == CHOOSE n \in S : \A m \in S : n <= m

\* the first token of the window that parses, if there is one
FirstParsingToken ==
    LET toks == AllTokens(Snippet(arg))
        good == {i \in 1..Len(toks) : try_parse_datetime(toks[i]) # NoInstant}
    IN  IF good = {} THEN NoInstant ELSE try_parse_datetime(toks[Lowest(good)])

\* C23 as stated: the result is what tryParse makes of the match of the first
\* pattern that matches inside the window, and the tokens are scanned only
\* when no pattern matches
C23_FirstMatchIsReturned ==
    StampExtracted /\ arg # <<>> =>
        IF Matching # {}
        THEN ret[1] = try_parse_datetime(Search(Lowest(Matching), Snippet(arg)))
        ELSE ret[1] = FirstParsingToken

\* C23 amended: the result is the instant of the first pattern, in priority
\* order, whose match inside the window parses; the tokens are scanned when
\* no pattern has a match that parses
C23_FirstParsedMatchIsReturned ==
    StampExtracted /\ arg # <<>> =>
        IF Parsing # {}
        THEN ret[1] = try_parse_datetime(Search(Lowest(Parsing), Snippet(arg)))
        ELSE ret[1] = FirstParsingToken

\* a pattern matches a text that is no instant, and the result comes from elsewhere
C23_Witness ==
    /\ StampExtracted
    /\ Matching # {}
    /\ Lowest(Matching) \notin Parsing
    /\ ret[1] # NoInstant

-----------------------------------------------------------------------------
(* summarize_event (src/utils/parser.py) *)

\* the bound on the number of pieces of an event text
MaxRuns == 4

\* line 197: .{50,max_len}?
ShortestGroup == 50

SentenceMarks == {".", "!", "?"}

Ellipsis == <<".", ".", ".">>

\* the pieces of the event texts: 49 letters, a word of 60 letters that
\* starts with another letter, and single characters
A49 == [i \in 1..49 |-> "a"]
B60 == [i \in 1..60 |-> IF i = 1 THEN "b" ELSE "a"]
SummaryPieces == {A49, B60, <<" ">>, <<".">>, <<"\n">>}

RECURSIVE Concat(_)
Concat(parts) == IF parts = <<>> THEN <<>> ELSE Head(parts) \o Concat(Tail(parts))

RECURSIVE RunSeqsUpTo(_)
RunSeqsUpTo(n) ==
    IF n = 0 THEN {<<>>}
    ELSE LET shorter == RunSeqsUpTo(n - 1)
         IN  shorter \cup {Append(xs, p) : xs \in {s \in shorter : Len(s) = n - 1},
                                           p \in SummaryPieces}

SummaryTexts == {Concat(ps) : ps \in RunSeqsUpTo(MaxRuns)}

SummaryBudgets == {50, 60}

\* line 193, re.sub(r"\s+", " ", x): of every run of white space the first
\* character stays, as a space
CollapseRuns(s) ==
    LET kept == SelectSeq([i \in 1..Len(s) |-> i],
                          LAMBDA i : ~IsSpace(s[i]) \/ i = 1 \/ ~IsSpace(s[i - 1]))
    IN  [j \in 1..Len(kept) |-> IF IsSpace(s[kept[j]]) THEN " " ELSE s[kept[j]]]

\* line 193
Collapsed(event_text) == Strip(CollapseRuns(event_text))

\* line 197: a sentence mark followed by white space, k characters after i
MarkAfter(s, i, k) ==
    /\ i + k + 1 <= Len(s)
    /\ s[i + k] \in SentenceMarks
    /\ s[i + k + 1] = " "

\* line 197: re.search tries every position of the text as the start of the match
SentenceStarts(s, max_len) ==
    {i \in 1..Len(s) : \E k \in ShortestGroup..max_len : MarkAfter(s, i, k)}

\* line 197: group(1) of the leftmost match, the shortest at its start
SentenceGroup(s, max_len) ==
    LET i == CHOOSE a \in SentenceStarts(s, max_len) :
                 \A b \in SentenceStarts(s, max_len) : a <= b
        k == CHOOSE a \in ShortestGroup..max_len :
                 /\ MarkAfter(s, i, a)
                 /\ \A b \in ShortestGroup..max_len : MarkAfter(s, i, b) => a <= b
    IN  SubSeq(s, i, i + k - 1)

\* line 201: t.rsplit(" ", 1)[0]
BeforeLastSpace(t) ==
    LET spaces == {i \in 1..Len(t) : t[i] = " "}
    IN  IF spaces = {} THEN t
        ELSE SubSeq(t, 1, (CHOOSE i \in spaces : \A j \in spaces : j <= i) - 1)

\* lines 189-202
summarize_event(event_text, max_len) ==
    LET s == Collapsed(event_text)
    IN  IF Len(s) <= max_len THEN s
        ELSE IF SentenceStarts(s, max_len) # {}
        THEN Strip(SentenceGroup(s, max_len)) \o Ellipsis
        ELSE BeforeLastSpace(SubSeq(s, 1, max_len)) \o Ellipsis

InitSummary ==
    /\ fn = "summarize_event"
    /\ arg \in [event_text : SummaryTexts, max_len : SummaryBudgets]
    /\ ret = <<>>
    /\ OthersIdle

CallSummarize ==
    /\ fn = "summarize_event" /\ ret = <<>>
    /\ ret' = <<summarize_event(arg.event_text, arg.max_len)>>
    /\ UNCHANGED <<fn, arg, otherThanPure>>

NextSummary == CallSummarize

SpecSummary == InitSummary /\ [][NextSummary]_vars

-----------------------------------------------------------------------------
(* Claims about summarize_event, checked under SpecSummary *)

Summarized == fn = "summarize_event" /\ ret # <<>>

IsPrefix(p, s) == Len(p) <= Len(s) /\ SubSeq(s, 1, Len(p)) = p

\* C27: a text that fits in max_len is returned as collapsed; of a longer one
\* the result is a prefix of the collapsed text, at most max_len characters
\* long, followed by the ellipsis.
C27_PrefixWithinBudget ==
    Summarized =>
        LET s == Collapsed(arg.event_text)
            n == Len(ret[1]) - Len(Ellipsis)
        IN  IF Len(s) <= arg.max_len THEN ret[1] = s
            ELSE /\ n >= 0 /\ n <= arg.max_len
                 /\ SubSeq(ret[1], n + 1, Len(ret[1])) = Ellipsis
                 /\ IsPrefix(SubSeq(ret[1], 1, n), s)

-----------------------------------------------------------------------------
(* MainWindow: the working set of events (src/ui/main_window.py)

   Every list of events the window holds is what a source delivered, cut to
   a number of events, so a list is modelled by its source and its length. *)

\* line 56
LOG_TYPES == <<"System", "Application", "Security">>

\* line 234: the options of the Load dropdown
LoadOptions == {"50", "100", "200", "500", "All"}

\* line 135
DefaultMaxEvents == 100

\* lines 165 and 406: max_records when the Load count is All
AllMaxRecords == 1000

\* None, for _max_events
AllEvents == 0

\* the numbers of events a source may hold
SourceCounts == {0, 30, 80, 150, 600, 1200}

NoEvents == <<>>
EventList(origin, n) == IF n = 0 THEN NoEvents ELSE <<[origin |-> origin, len |-> n]>>
LenOf(l) == IF l = NoEvents THEN 0 ELSE l[1].len

\* l[:k] for k > 0
Take(l, k) == IF l = NoEvents THEN l ELSE EventList(l[1].origin, IF l[1].len < k THEN l[1].len ELSE k)

\* lines 169-170, 409-410, 808-809, 933-934: `if self._max_events:` slice
Limited(l, max) == IF max # AllEvents THEN Take(l, max) ELSE l

\* lines 165 and 406: self._max_events or 1000
MaxRecordsFor(max) == IF max # AllEvents THEN max ELSE AllMaxRecords

\* what read_windows_event_log(t, max_records) may return: at most
\* max_records events of the channel
ReaderResults(t, maxrec) ==
    {EventList(t, IF n < maxrec THEN n ELSE maxrec) : n \in SourceCounts}

\* lines 919-926: the Load count of an option
ParseLoadOption(v) ==
    CASE v = "All" -> AllEvents
      [] v = "50" -> 50
      [] v = "100" -> 100
      [] v = "200" -> 200
      [] v = "500" -> 500

NoFetch == <<>>
Fetch(t, maxrec) == <<[type |-> t, max_records |-> maxrec]>>
Did(op, how, fetch) == <<[op |-> op, how |-> how, fetch |-> fetch]>>

otherThanUi == <<explainVars, parseVars, logVars, readVars, chatVars, pureVars>>

\* lines 129-135, before the auto-load of line 150
InitUi ==
    /\ ui_platform \in {"Windows", "Linux"}
    /\ ui_pc = "constructing"
    /\ loaded_events = NoEvents /\ filtered_events = NoEvents
    /\ last_loaded_winlog_type = "None"
    /\ loaded_from_file = FALSE
    /\ max_events = DefaultMaxEvents
    /\ log_type_var = LOG_TYPES[1]
    /\ last_call = <<>>
    /\ ExplainIdle /\ ParseIdle /\ LogIdle /\ ReadIdle /\ ChatIdle /\ PureIdle

\* lines 402-403: when _apply_log_type_filter reads the channel
NeedsFetch(from_file, last, t) ==
    ui_platform = "Windows" /\ ~from_file /\ last # t

\* _apply_log_type_filter, lines 398-422, called by the handler op with the
\* loaded list, the last channel, the flag and the Load count as op left them
ApplyLogTypeFilter(op, how, loaded, last, from_file, max, t) ==
    IF NeedsFetch(from_file, last, t)
    THEN \E evts \in ReaderResults(t, MaxRecordsFor(max)) :
            /\ loaded_events' = IF evts # NoEvents THEN Limited(evts, max) ELSE loaded
            /\ last_loaded_winlog_type' = IF evts # NoEvents THEN t ELSE last
            /\ filtered_events' = loaded_events'
            /\ last_call' = Did(op, how, Fetch(t, MaxRecordsFor(max)))
    ELSE /\ loaded_events' = loaded
         /\ last_loaded_winlog_type' = last
         /\ filtered_events' = loaded
         /\ last_call' = Did(op, how, NoFetch)

\* _auto_load_windows_logs, lines 155-180; the call of line 175 finds the
\* channel of the dropdown loaded and reads nothing
AutoLoad ==
    /\ ui_pc = "constructing"
    /\ ui_pc' = "ready"
    /\ IF ui_platform # "Windows"
       THEN /\ last_call' = Did("auto_load", "skipped", NoFetch)
            /\ UNCHANGED <<loaded_events, filtered_events, last_loaded_winlog_type,
                           loaded_from_file, log_type_var>>
       ELSE \E evts \in ReaderResults("System", MaxRecordsFor(max_events)) :
               IF evts # NoEvents
               THEN /\ loaded_from_file' = FALSE
                    /\ log_type_var' = "System"
                    /\ ApplyLogTypeFilter("auto_load", "loaded", Limited(evts, max_events),
                                          "System", FALSE, max_events, "System")
               ELSE /\ last_call' = Did("auto_load", "empty", NoFetch)
                    /\ UNCHANGED <<loaded_events, filtered_events, last_loaded_winlog_type,
                                   loaded_from_file, log_type_var>>
    /\ UNCHANGED <<ui_platform, max_events>>

\* line 227: a channel is selected in the dropdown
LogTypeSelected ==
    /\ ui_pc = "ready"
    /\ \E i \in 1..Len(LOG_TYPES) :
          /\ log_type_var' = LOG_TYPES[i]
          /\ ApplyLogTypeFilter("log_type", "done", loaded_events, last_loaded_winlog_type,
                                loaded_from_file, max_events, LOG_TYPES[i])
    /\ UNCHANGED <<ui_platform, ui_pc, loaded_from_file, max_events>>

\* line 229: the Refresh button
Refresh ==
    /\ ui_pc = "ready"
    /\ ApplyLogTypeFilter("refresh", "done", loaded_events, last_loaded_winlog_type,
                          loaded_from_file, max_events, log_type_var)
    /\ UNCHANGED <<ui_platform, ui_pc, loaded_from_file, max_events, log_type_var>>

\* open_file and _load_file, lines 787-827: no path chosen; the file cannot
\* be loaded or parsed (lines 822-827); or n events are parsed
OpenFile ==
    /\ ui_pc = "ready"
    /\ \/ /\ last_call' = Did("open_file", "cancelled", NoFetch)
          /\ UNCHANGED <<loaded_events, filtered_events, last_loaded_winlog_type,
                         loaded_from_file>>
       \/ /\ loaded_from_file' = TRUE
          /\ last_call' = Did("open_file", "failed", NoFetch)
          /\ UNCHANGED <<loaded_events, filtered_events, last_loaded_winlog_type>>
       \/ \E n \in SourceCounts :
             /\ loaded_from_file' = TRUE
             /\ ApplyLogTypeFilter("open_file", "loaded",
                                   Limited(EventList("file", n), max_events),
                                   "None", TRUE, max_events, log_type_var)
    /\ UNCHANGED <<ui_platform, ui_pc, max_events, log_type_var>>

\* _on_max_events_changed, lines 917-940
MaxEventsChanged ==
    /\ ui_pc = "ready"
    /\ \E v \in LoadOptions :
          /\ max_events' = ParseLoadOption(v)
          /\ ApplyLogTypeFilter("max_events", "done",
                                IF loaded_from_file /\ loaded_events # NoEvents
                                THEN Limited(loaded_events, ParseLoadOption(v))
                                ELSE loaded_events,
                                last_loaded_winlog_type, loaded_from_file,
                                ParseLoadOption(v), log_type_var)
    /\ UNCHANGED <<ui_platform, ui_pc, loaded_from_file, log_type_var>>

NextUi ==
    \/ AutoLoad /\ UNCHANGED otherThanUi
    \/ LogTypeSelected /\ UNCHANGED otherThanUi
    \/ Refresh /\ UNCHANGED otherThanUi
    \/ OpenFile /\ UNCHANGED otherThanUi
    \/ MaxEventsChanged /\ UNCHANGED otherThanUi

SpecUi == InitUi /\ [][NextUi]_vars

-----------------------------------------------------------------------------
(* Claims about the working set of MainWindow, checked under SpecUi *)

UiReady == ui_pc = "ready"

\* C28: whenever the Load count is a number N, the loaded and the displayed
\* list hold at most N events each, from a file or from a Windows channel.
C28_AtMostLoadCount ==
    UiReady /\ max_events # AllEvents =>
        /\ LenOf(loaded_events) <= max_events
        /\ LenOf(filtered_events) <= max_events

\* C30: a file open that fails leaves the loaded events, the loaded-from-file
\* flag and the last loaded channel as they were.
C30_FailedOpenChangesNothing ==
    [][last_call' = Did("open_file", "failed", NoFetch)
         => UNCHANGED <<loaded_events, loaded_from_file, last_loaded_winlog_type>>]_vars

-----------------------------------------------------------------------------
(* MainWindow.explain_time_range and _filter_events_by_time
   (src/ui/main_window.py) *)

\* the bound on the number of runs of equal events in the displayed list
MaxShownRuns == 3

\* line 769: selected_events[:20]
MaxExplained == 20

\* the events of the displayed list: two with an instant, one without
ShownEvents == { <<"2024-01-25 10:33:22", "w">>, <<"w", "1/26/2024 10:33">>, <<"w">> }

RunLengths == {1, 11}

Repeat(ev, k) == [i \in 1..k |-> ev]

RECURSIVE ShownListsUpTo(_)
ShownListsUpTo(n) ==
    IF n = 0 THEN {<<>>}
    ELSE LET shorter == ShownListsUpTo(n - 1)
         IN  shorter \cup {xs \o Repeat(ev, k) : xs \in shorter, ev \in ShownEvents, k \in RunLengths}

\* the start and the end of the range, as read from the time widgets
Ranges == { <<4, 4>>, <<4, 5>>, <<5, 4>>, <<0, 6>>, <<5, 6>> }

\* the explanation client is not called
NoRequest == <<>>

\* lines 769-771: what get_explanation is called with
Request(body, count) == <<[event |-> body, range_count |-> count, retries |-> 1]>>

\* the bounds of the range are not part of it
InRange_Exclusive(dt, start_dt, end_dt) ==
    dt # NoInstant /\ dt > start_dt /\ dt < end_dt

\* lines 555-560: an event without instant, one before the start and one
\* after the end are left out
InRange(dt, start_dt, end_dt) ==
    dt # NoInstant /\ ~(dt < start_dt) /\ ~(dt > end_dt)

\* lines 551-565
filter_events_by_time(shown, start_dt, end_dt) ==
    SelectSeq(shown, LAMBDA ev : InRange(extract_event_timestamp(ev), start_dt, end_dt))

\* lines 746-771
explain_time_range(gemini, shown, start_dt, end_dt) ==
    IF ~gemini THEN NoRequest
    ELSE IF start_dt > end_dt THEN NoRequest
    ELSE LET selected_events == filter_events_by_time(shown, start_dt, end_dt)
         IN  IF selected_events = <<>> THEN NoRequest
             ELSE Request(Join(<<"\n", "\n">>,
                               SubSeq(selected_events, 1,
                                      IF Len(selected_events) < MaxExplained
                                      THEN Len(selected_events) ELSE MaxExplained)),
                          Len(selected_events))

InitRange ==
    /\ fn = "explain_time_range"
    /\ arg \in [gemini : BOOLEAN, shown : ShownListsUpTo(MaxShownRuns), range : Ranges]
    /\ ret = <<>>
    /\ OthersIdle

CallExplainTimeRange ==
    /\ fn = "explain_time_range" /\ ret = <<>>
    /\ ret' = <<explain_time_range(arg.gemini, arg.shown, arg.range[1], arg.range[2])>>
    /\ UNCHANGED <<fn, arg, otherThanPure>>

NextRange == CallExplainTimeRange

SpecRange == InitRange /\ [][NextRange]_vars

-----------------------------------------------------------------------------
(* Claims about explain_time_range, checked under SpecRange *)

RangeHandled == fn = "explain_time_range" /\ ret # <<>>

\* the positions in the displayed list of the events inside the range
Matches ==
    {i \in 1..Len(arg.shown) :
        LET dt == extract_event_timestamp(arg.shown[i])
        IN  dt # NoInstant /\ arg.range[1] <= dt /\ dt <= arg.range[2]}

\* the k-th smallest member of a set of positions
RECURSIVE Nth(_, _)
Nth(S, k) ==
    LET least == CHOOSE a \in S : \A b \in S : a <= b
    IN  IF k = 1 THEN least ELSE Nth(S \ {least}, k - 1)

\* the first events inside the range, at most 20, in displayed order
FirstMatches ==
    [k \in 1..(IF Cardinality(Matches) < MaxExplained THEN Cardinality(Matches)
               ELSE MaxExplained) |-> arg.shown[Nth(Matches, k)]]

\* C29: the text sent for a time range holds the first 20 events of the
\* displayed list whose instant lies in [start, end], bounds included, in
\* displayed order; range_count is the number of all such events; nothing is
\* sent when start is after end or no event lies in the range.
C29_FirstTwentyOfRange ==
    RangeHandled =>
        IF arg.range[1] > arg.range[2] \/ Matches = {} \/ ~arg.gemini
        THEN ret[1] = NoRequest
        ELSE /\ ret[1] # NoRequest
             /\ ret[1][1].event = Join(<<"\n", "\n">>, FirstMatches)
             /\ ret[1][1].range_count = Cardinality(Matches)
             /\ Len(FirstMatches) <= MaxExplained

\* more than 20 events lie in the range, one of them on a bound of it, and
\* 20 are sent
C29_Witness ==
    /\ RangeHandled
    /\ ret[1] # NoRequest
    /\ ret[1][1].range_count > MaxExplained
    /\ Len(FirstMatches) = MaxExplained
    /\ \E i \in Matches : extract_event_timestamp(arg.shown[i]) = arg.range[1]
    /\ \E i \in 1..Len(arg.shown) : i \notin Matches /\ i < Nth(Matches, MaxExplained)

=============================================================================
